---- MODULE Spec2Model ----
(***************************************************************************)
(* Model of the typed API-access layer of the patient / drug / delivery    *)
(* tracking front end: the request executor api(), the retry wrapper       *)
(* retry(), the resource hooks built on them with the query cache they     *)
(* invalidate, the inventory merge, the delivery form, the refresh button  *)
(* and the AI assistant panel.                                             *)
(*                                                                         *)
(* JavaScript values are records [type, s, status]: `type` is the typeof / *)
(* class of the value, `s` its text (a string's characters, an object's    *)
(* canonical JSON text, an Error's message) and `status` the optional      *)
(* numeric status property (<<>> when the property is absent).             *)
(***************************************************************************)
EXTENDS Integers, Sequences, FiniteSets, TLC

VARIABLES
    rPc,        \* retry: "idle" | "awaitFn" | "delay" | "done"
    rAttempts,  \* retry: the attempts argument
    rBaseDelay, \* retry: the baseDelay argument
    rI,         \* retry: the loop variable i
    rLastErr,   \* retry: the local lastErr
    rPromise,   \* retry: the promise returned to the caller
    rCalls,     \* number of times fn has been invoked
    rHist,      \* settled invocations of fn, oldest first: [ok, v, at]
    rWaits,     \* the delay(ms) calls made so far, oldest first
    rClock,     \* milliseconds spent in delay() so far
    apiCalls,   \* the calls of api() made so far, one record each
    requests,   \* the HTTP requests handed to fetch, oldest first
    qPc,        \* query function: "idle" | "retry" | "direct" | "done"
    qOp,        \* the read hook whose query function runs, with its argument
    qCall,      \* index in apiCalls of the call the query function awaits
    qPromise,   \* the promise returned by the query function
    mPc,        \* mutation: "idle" | "awaitApi" | "done"
    mOp,        \* the write hook whose mutation runs, with its variables
    mCall,      \* index in apiCalls of the call of the mutation function
    mPromise,   \* the promise of the mutation
    invalidated,\* query keys passed to qc.invalidateQueries, oldest first
    cache,      \* query cache: query key -> [data, invalidated]
    db,         \* backend: number of committed writes per table
    served,     \* backend: the response computed for a request, by call
    heap,       \* objects by reference (records of the inventory lists)
    mergeArgs,  \* merge: the arguments, lists of references or undefined
    mergeOut,   \* merge: the list returned, <<>> before the call returns
    formData,   \* DeliveryForm: the formData state
    refreshButton, \* RefreshButton: spinning, and its doRefresh calls in progress
    aiPanel     \* AiAssistPanel: its useState values and its handlers in progress

retryVars == <<rPc, rAttempts, rBaseDelay, rI, rLastErr, rPromise, rCalls,
               rHist, rWaits, rClock>>

apiVars == <<apiCalls, requests>>

readVars == <<qPc, qOp, qCall, qPromise>>
writeVars == <<mPc, mOp, mCall, mPromise, invalidated>>
hookVars == <<readVars, writeVars, cache>>

backendVars == <<db, served>>
mergeVars == <<heap, mergeArgs, mergeOut>>
formVars == <<formData>>
uiVars == <<refreshButton, aiPanel>>
envVars == <<backendVars, mergeVars, formVars, uiVars>>

vars == <<retryVars, apiVars, hookVars, envVars>>

----------------------------------------------------------------------------
(* Bounds of the model *)

MaxAttempts == 3
MaxCalls == 4
MaxLen == 2
MaxSubmits == 1
MaxRefreshes == 2
MaxAiCalls == 2
MaxGenerations == 13

----------------------------------------------------------------------------
(* JavaScript values *)

None == <<>>
Some(x) == <<x>>

Undefined == [type |-> "undefined", s |-> "", status |-> None]
Str(t) == [type |-> "string", s |-> t, status |-> None]
Obj(t) == [type |-> "object", s |-> t, status |-> None]
Err(msg, st) == [type |-> "error", s |-> msg, status |-> st]

Pending == [state |-> "pending", v |-> Undefined]
Resolved(v) == [state |-> "resolved", v |-> v]
Rejected(e) == [state |-> "rejected", v |-> e]

RECURSIVE SumSeq(_)
SumSeq(q) == IF q = <<>> THEN 0 ELSE q[1] + SumSeq(Tail(q))

----------------------------------------------------------------------------
(* Strings the code inspects character by character are sequences of      *)
(* one-character strings.                                                  *)

\* String.prototype.startsWith
StartsWith(str, prefix) ==
    /\ Len(prefix) <= Len(str)
    /\ SubSeq(str, 1, Len(prefix)) = prefix

\* String.prototype.includes
Includes(str, sub) ==
    \E i \in 1..(Len(str) - Len(sub) + 1) :
        SubSeq(str, i, i + Len(sub) - 1) = sub

\* Object spread { ...a, ...b }: the properties of b win.
Spread(a, b) ==
    [k \in (DOMAIN a) \cup (DOMAIN b) |-> IF k \in DOMAIN b THEN b[k] ELSE a[k]]

EmptyObject == <<>>

----------------------------------------------------------------------------
(* api(path, options = {}, timeout = DEFAULT_TIMEOUT) *)

DEFAULT_TIMEOUT == 8000

HttpPrefix == <<"h", "t", "t", "p">>
ApiRoot == <<"/", "a", "p", "i">>
AppJsonText == <<"a", "p", "p", "l", "i", "c", "a", "t", "i", "o", "n", "/", "j", "s", "o", "n">>

\* Paths the callers pass.
PathPatients == <<"/", "p", "a", "t", "i", "e", "n", "t", "s">>
PathAbsolute == <<"h", "t", "t", "p", ":", "/", "/", "h", "/", "x">>
PathUpperScheme == <<"H", "T", "T", "P", ":", "/", "/", "h", "/", "x">>
PathHttpWord == <<"h", "t", "t", "p", "b", "i", "n", "/", "x">>

\* Values of the response's content-type header.
CtJson == AppJsonText
CtJsonCharset == AppJsonText \o <<";", " ", "c", "h", "a", "r", "s", "e", "t", "=", "u", "t", "f", "-", "8">>
CtText == <<"t", "e", "x", "t", "/", "p", "l", "a", "i", "n">>
CtOtherCase == <<"A", "p", "p", "l", "i", "c", "a", "t", "i", "o", "n", "/", "J", "S", "O", "N">>
CtProblem == <<"a", "p", "p", "l", "i", "c", "a", "t", "i", "o", "n", "/", "p", "r", "o", "b", "l", "e", "m", "+", "j", "s", "o", "n">>

\* The backend's tables, and the JSON text of a list endpoint's payload: it
\* is determined by the committed writes of the tables the endpoint reads
\* (d[t] is the number of writes committed to table t).
Tables == {"patients", "drugs", "deliveries", "inventory"}
SnapshotBody(tables, d) ==
    LET Cell(t) == IF t \in tables THEN ToString(d[t]) ELSE "null" IN
    "[" \o Cell("patients") \o "," \o Cell("drugs") \o "," \o Cell("deliveries")
        \o "," \o Cell("inventory") \o "]"
SnapshotBodies ==
    {SnapshotBody(ts, d) : ts \in SUBSET Tables, d \in [Tables -> {0, 1}]}

\* JSON.parse on the body texts the model uses.  An object is identified by
\* its canonical JSON text, which is not always the text it was parsed from.
\* Bodies the AI endpoints answer with: a chat reply with the history, an
\* image, a rewritten text.
ChatBody ==
    "{\"reply\":\"ok\",\"history\":[{\"role\":\"user\",\"content\":\"hi\"},{\"role\":\"bot\",\"content\":\"ok\"}]}"
ImageBody ==
    "{\"image\":\"data:image/png;base64,AA\",\"prompt\":\"p\",\"ai\":true,\"width\":512,\"height\":512,\"style\":\"cool\"}"
RewriteBody == "{\"rewritten\":\"short\",\"mode\":\"simplify\"}"
AiBodies == {ChatBody, ImageBody, RewriteBody}

JsonNull == [type |-> "null", s |-> "null", status |-> None]
SyntaxError == Err("SyntaxError", None)
JsonParse(text) ==
    CASE text = "{\"detail\":\"Not found\"}" -> [ok |-> TRUE, v |-> Obj("{\"detail\":\"Not found\"}")]
      [] text = "{\"detail\":\"\"}" -> [ok |-> TRUE, v |-> Obj("{\"detail\":\"\"}")]
      [] text = "{\"detail\":[{\"msg\":\"bad\"}]}" -> [ok |-> TRUE, v |-> Obj("{\"detail\":[{\"msg\":\"bad\"}]}")]
      [] text = "{ \"error\": \"x\" }" -> [ok |-> TRUE, v |-> Obj("{\"error\":\"x\"}")]
      [] text = "[ {\"id\":1} ]" -> [ok |-> TRUE, v |-> Obj("[{\"id\":1}]")]
      [] text = "\"oops\"" -> [ok |-> TRUE, v |-> Str("oops")]
      [] text = "null" -> [ok |-> TRUE, v |-> JsonNull]
      [] text \in SnapshotBodies -> [ok |-> TRUE, v |-> Obj(text)]
      [] text \in AiBodies -> [ok |-> TRUE, v |-> Obj(text)]
      [] OTHER -> [ok |-> FALSE, v |-> SyntaxError]

\* JSON.stringify on the values JsonParse produces.
JsonStringify(v) ==
    CASE v.type = "string" -> Str("\"" \o v.s \o "\"")
      [] OTHER -> Str(v.s)

\* Property access data.detail: throws on null, undefined when the property
\* is absent.
GetDetail(v) ==
    CASE v.type = "null" -> [ok |-> FALSE, v |-> Err("TypeError", None)]
      [] v = Obj("{\"detail\":\"Not found\"}") -> [ok |-> TRUE, v |-> Str("Not found")]
      [] v = Obj("{\"detail\":\"\"}") -> [ok |-> TRUE, v |-> Str("")]
      [] v = Obj("{\"detail\":[{\"msg\":\"bad\"}]}") -> [ok |-> TRUE, v |-> Obj("[{\"msg\":\"bad\"}]")]
      [] OTHER -> [ok |-> TRUE, v |-> Undefined]

\* ToBoolean, as used by ||
Truthy(v) ==
    CASE v.type \in {"undefined", "null"} -> FALSE
      [] v.type = "string" -> v.s # ""
      [] OTHER -> TRUE

\* ToString, as applied by new Error(msg) to its argument
JsToString(v) ==
    CASE v.type = "string" -> v.s
      [] v.type = "object" -> "[object Object]"
      [] OTHER -> v.s

\* Response.ok
IsOk(status) == status >= 200 /\ status <= 299

NoResponse == [status |-> 0, statusText |-> "", ct |-> None, body |-> ""]

----------------------------------------------------------------------------
(* retry(fn, attempts = 3, baseDelay = 300) *)

DefaultAttempts == 3
DefaultBaseDelay == 300

\* The arguments the callers of retry are drawn from.
AttemptsArgs == (0 - 1)..MaxAttempts
BaseDelayArgs == {100, DefaultBaseDelay}

\* What an arbitrary fn may resolve with or throw.
FnValues == {Str("V1"), Str("V2")}
FnErrors == {Err("E1", None), Err("E2", Some(500))}

\* baseDelay * (i+1)
Backoff_Exponential(baseDelay, i) == baseDelay * (2 ^ i)
Backoff(baseDelay, i) == baseDelay * (i + 1)

\* The loop head for(...; i<attempts; ...) followed by the call fn() of the
\* try block, or by `throw lastErr` when the loop is over.  Everything up
\* to the next await runs in one step.
RetryIter_OneMore(i) ==
    /\ rI' = i
    /\ IF i <= rAttempts
       THEN /\ rCalls' = rCalls + 1
            /\ rPc' = "awaitFn"
            /\ rPromise' = rPromise
       ELSE /\ rCalls' = rCalls
            /\ rPc' = "done"
            /\ rPromise' = Rejected(rLastErr)
RetryIter_AtLeastOnce(i) ==
    /\ rI' = i
    /\ IF i = 0 \/ i < rAttempts
       THEN /\ rCalls' = rCalls + 1
            /\ rPc' = "awaitFn"
            /\ rPromise' = rPromise
       ELSE /\ rCalls' = rCalls
            /\ rPc' = "done"
            /\ rPromise' = Rejected(rLastErr)
RetryIter(i) ==
    /\ rI' = i
    /\ IF i < rAttempts
       THEN /\ rCalls' = rCalls + 1
            /\ rPc' = "awaitFn"
            /\ rPromise' = rPromise
       ELSE /\ rCalls' = rCalls
            /\ rPc' = "done"
            /\ rPromise' = Rejected(rLastErr)

\* let lastErr; for(let i=0; ...   (the arguments are those of the call)
RetryEnter ==
    /\ rPc = "idle"
    /\ RetryIter(0)
    /\ UNCHANGED <<rAttempts, rBaseDelay, rLastErr, rHist, rWaits, rClock>>

\* try { return await fn(); }
RetryReturn(v) ==
    /\ rPc = "awaitFn"
    /\ rHist' = Append(rHist, [ok |-> TRUE, v |-> v, at |-> rClock])
    /\ rPc' = "done"
    /\ rPromise' = Resolved(v)
    /\ UNCHANGED <<rAttempts, rBaseDelay, rI, rLastErr, rCalls, rWaits, rClock>>

\* catch(e){ lastErr=e; await delay(baseDelay * (i+1)); }
RetryCatch_KeepFirst(e) ==
    /\ rPc = "awaitFn"
    /\ rHist' = Append(rHist, [ok |-> FALSE, v |-> e, at |-> rClock])
    /\ rLastErr' = IF rLastErr = Undefined THEN e ELSE rLastErr
    /\ rWaits' = Append(rWaits, Backoff(rBaseDelay, rI))
    /\ rPc' = "delay"
    /\ UNCHANGED <<rAttempts, rBaseDelay, rI, rPromise, rCalls, rClock>>
RetryCatch(e) ==
    /\ rPc = "awaitFn"
    /\ rHist' = Append(rHist, [ok |-> FALSE, v |-> e, at |-> rClock])
    /\ rLastErr' = e
    /\ rWaits' = Append(rWaits, Backoff(rBaseDelay, rI))
    /\ rPc' = "delay"
    /\ UNCHANGED <<rAttempts, rBaseDelay, rI, rPromise, rCalls, rClock>>

\* The timer of delay() fires: i++ and the next turn of the loop.
RetryDelayElapsed ==
    /\ rPc = "delay"
    /\ rClock' = rClock + rWaits[Len(rWaits)]
    /\ RetryIter(rI + 1)
    /\ UNCHANGED <<rAttempts, rBaseDelay, rLastErr, rHist, rWaits>>

RetryInit(attemptsArgs, baseDelayArgs) ==
    /\ rPc = "idle"
    /\ rAttempts \in attemptsArgs
    /\ rBaseDelay \in baseDelayArgs
    /\ rI = 0
    /\ rLastErr = Undefined
    /\ rPromise = Pending
    /\ rCalls = 0
    /\ rHist = <<>>
    /\ rWaits = <<>>
    /\ rClock = 0

\* Line 7-8: a fresh call record: controller created, timer armed.
NewCall(path, options, timeout) ==
    [ pc |-> "fetch", path |-> path, options |-> options, timerMs |-> timeout,
      timerPending |-> TRUE, timerFired |-> FALSE, timerCleared |-> FALSE,
      aborted |-> FALSE, responded |-> FALSE, res |-> NoResponse,
      read |-> "none", failure |-> "none", promise |-> Pending ]

\* Line 10: path.startsWith('http') ? path : `/api${path}`
RequestUrl(path) == IF StartsWith(path, HttpPrefix) THEN path ELSE ApiRoot \o path

\* Line 11: { 'Content-Type': 'application/json', ...(options.headers||{}) }
DefaultHeaders == ("Content-Type" :> "application/json")
MergedHeaders(options) ==
    Spread(DefaultHeaders,
           IF "headers" \in DOMAIN options THEN options["headers"] ELSE EmptyObject)

\* Lines 11-13: the init object handed to fetch.  "controller" is the signal
\* of this call's AbortController.
FetchInit(options) ==
    Spread([headers |-> MergedHeaders(options), signal |-> "controller"], options)

\* Line 25: finally { clearTimeout(id); } and the settling of the promise.
ApiFinally_ClearOnSuccessOnly(call, promise) ==
    [call EXCEPT !.pc = "done", !.promise = promise,
                 !.timerPending = IF promise.state = "resolved" THEN FALSE ELSE @,
                 !.timerCleared = promise.state = "resolved"]
ApiFinally_NoClear(call, promise) ==
    [call EXCEPT !.pc = "done", !.promise = promise]
ApiFinally(call, promise) ==
    [call EXCEPT !.pc = "done", !.promise = promise,
                 !.timerPending = FALSE, !.timerCleared = TRUE]

\* Lines 17-19: the message of the error for a non-success response, from
\* the outcome of res.json() (parsed = [ok, v]).
ErrorMessage_DetailOrStatusText(parsed, statusText) ==
    IF ~parsed.ok THEN statusText
    ELSE LET detail == GetDetail(parsed.v) IN
         IF ~detail.ok THEN statusText
         ELSE IF Truthy(detail.v) THEN JsToString(detail.v)
         ELSE statusText
ErrorMessage(parsed, statusText) ==
    IF ~parsed.ok THEN statusText
    ELSE LET detail == GetDetail(parsed.v) IN
         IF ~detail.ok THEN statusText
         ELSE IF Truthy(detail.v) THEN JsToString(detail.v)
         ELSE JsToString(JsonStringify(parsed.v))

HttpError(parsed, res) == Err(ErrorMessage(parsed, res.statusText), Some(res.status))

\* Lines 15-24 up to the next await, once fetch has resolved with res.
AfterFetch_ExactContentType(call, res) ==
    LET c == [call EXCEPT !.responded = TRUE, !.res = res] IN
    IF ~IsOk(res.status)
    THEN [c EXCEPT !.pc = "errJson", !.failure = "http"]
    ELSE IF res.status = 204
    THEN ApiFinally(c, Resolved(Undefined))
    ELSE LET ct == IF res.ct = None THEN <<>> ELSE res.ct[1] IN
         IF ct # AppJsonText
         THEN [c EXCEPT !.pc = "text"]
         ELSE [c EXCEPT !.pc = "json"]
AfterFetch(call, res) ==
    LET c == [call EXCEPT !.responded = TRUE, !.res = res] IN
    IF ~IsOk(res.status)
    THEN [c EXCEPT !.pc = "errJson", !.failure = "http"]
    ELSE IF res.status = 204
    THEN ApiFinally(c, Resolved(Undefined))
    ELSE LET ct == IF res.ct = None THEN <<>> ELSE res.ct[1] IN
         IF ~Includes(ct, AppJsonText)
         THEN [c EXCEPT !.pc = "text"]
         ELSE [c EXCEPT !.pc = "json"]

\* The body read the call is waiting for has settled with `read`
\* ([ok, v]: the text read, or the error of the stream).
AfterBody_SwallowDecode(call, read) ==
    LET c == [call EXCEPT !.read = IF read.ok THEN "ok" ELSE "failed"] IN
    CASE c.pc = "errJson" ->
           ApiFinally(c,
               Rejected(HttpError(IF read.ok THEN JsonParse(read.v)
                                  ELSE [ok |-> FALSE, v |-> read.v], c.res)))
      [] c.pc = "text" ->
           IF read.ok THEN ApiFinally(c, Resolved(Str(read.v)))
           ELSE ApiFinally([c EXCEPT !.failure = "decode"], Rejected(read.v))
      [] c.pc = "json" ->
           LET parsed == IF read.ok THEN JsonParse(read.v)
                         ELSE [ok |-> FALSE, v |-> read.v] IN
           IF parsed.ok THEN ApiFinally(c, Resolved(parsed.v))
           ELSE ApiFinally([c EXCEPT !.failure = "decode"], Resolved(Undefined))
AfterBody(call, read) ==
    LET c == [call EXCEPT !.read = IF read.ok THEN "ok" ELSE "failed"] IN
    CASE c.pc = "errJson" ->
           ApiFinally(c,
               Rejected(HttpError(IF read.ok THEN JsonParse(read.v)
                                  ELSE [ok |-> FALSE, v |-> read.v], c.res)))
      [] c.pc = "text" ->
           IF read.ok THEN ApiFinally(c, Resolved(Str(read.v)))
           ELSE ApiFinally([c EXCEPT !.failure = "decode"], Rejected(read.v))
      [] c.pc = "json" ->
           LET parsed == IF read.ok THEN JsonParse(read.v)
                         ELSE [ok |-> FALSE, v |-> read.v] IN
           IF parsed.ok THEN ApiFinally(c, Resolved(parsed.v))
           ELSE ApiFinally([c EXCEPT !.failure = "decode"], Rejected(parsed.v))

AbortError == Err("AbortError", None)
NetworkError == Err("TypeError", None)

\* The signal the request listens to is aborted: the pending fetch or body
\* read rejects with an AbortError.
AfterAbort(call) ==
    IF call.pc = "fetch"
    THEN ApiFinally([call EXCEPT !.failure = "abort"], Rejected(AbortError))
    ELSE AfterBody(call, [ok |-> FALSE, v |-> AbortError])

\* api(path, options, timeout) is called: lines 7-14.
ApiStart(path, options, timeout) ==
    /\ apiCalls' = Append(apiCalls, NewCall(path, options, timeout))
    /\ requests' = Append(requests,
                     [call |-> Len(apiCalls) + 1, url |-> RequestUrl(path),
                      init |-> FetchInit(options)])

RequestOf(c) == CHOOSE r \in 1..Len(requests) : requests[r].call = c

\* fetch resolves with a response.
FetchResponds(c, res) ==
    /\ c \in 1..Len(apiCalls)
    /\ apiCalls[c].pc = "fetch"
    /\ apiCalls' = [apiCalls EXCEPT ![c] = AfterFetch(@, res)]
    /\ UNCHANGED requests

\* fetch rejects: DNS, connection or CORS failure.
FetchFails(c) ==
    /\ c \in 1..Len(apiCalls)
    /\ apiCalls[c].pc = "fetch"
    /\ apiCalls' = [apiCalls EXCEPT ![c] =
                      ApiFinally([@ EXCEPT !.failure = "network"], Rejected(NetworkError))]
    /\ UNCHANGED requests

\* res.json() / res.text() settles after the whole body has arrived.
BodyArrives(c) ==
    /\ c \in 1..Len(apiCalls)
    /\ apiCalls[c].pc \in {"errJson", "text", "json"}
    /\ apiCalls' = [apiCalls EXCEPT ![c] = AfterBody(@, [ok |-> TRUE, v |-> @.res.body])]
    /\ UNCHANGED requests

\* The connection breaks while the body is being read.
BodyFails(c) ==
    /\ c \in 1..Len(apiCalls)
    /\ apiCalls[c].pc \in {"errJson", "text", "json"}
    /\ apiCalls' = [apiCalls EXCEPT ![c] = AfterBody(@, [ok |-> FALSE, v |-> NetworkError])]
    /\ UNCHANGED requests

\* Line 8: the timer fires: controller.abort().
TimerFires_SharedController(c) ==
    /\ c \in 1..Len(apiCalls)
    /\ apiCalls[c].timerPending
    /\ apiCalls' = [d \in 1..Len(apiCalls) |->
                      LET fired == [apiCalls[d] EXCEPT !.timerPending = FALSE,
                                        !.timerFired = (d = c) \/ @, !.aborted = TRUE] IN
                      IF apiCalls[d].pc = "done" /\ d # c THEN apiCalls[d]
                      ELSE IF requests[RequestOf(d)].init["signal"] = "controller"
                      THEN AfterAbort(fired) ELSE fired]
    /\ UNCHANGED requests
TimerFires(c) ==
    /\ c \in 1..Len(apiCalls)
    /\ apiCalls[c].timerPending
    /\ LET fired == [apiCalls[c] EXCEPT !.timerPending = FALSE, !.timerFired = TRUE,
                                        !.aborted = TRUE] IN
       apiCalls' = [apiCalls EXCEPT ![c] =
                      IF requests[RequestOf(c)].init["signal"] = "controller"
                      THEN AfterAbort(fired) ELSE fired]
    /\ UNCHANGED requests

\* The caller aborts the signal it passed in options.
CallerAborts(c) ==
    /\ c \in 1..Len(apiCalls)
    /\ apiCalls[c].pc # "done"
    /\ requests[RequestOf(c)].init["signal"] = "caller"
    /\ apiCalls' = [apiCalls EXCEPT ![c] = AfterAbort(@)]
    /\ UNCHANGED requests

ApiInit ==
    /\ apiCalls = <<>>
    /\ requests = <<>>

----------------------------------------------------------------------------
(* hooks.ts: the query functions of the read hooks and the mutation        *)
(* functions of the write hooks                                            *)

ReadHooks == {"usePatients", "useDrugs", "useDeliveries", "useStats",
              "useInventoryDrugs", "useInventorySummary",
              "useInventoryTransactions", "usePatientDeliveries"}
WriteHooks == {"useAddPatient", "useAddDrug", "useAddDelivery",
               "useUpdateDeliveryStatus", "useAdjustInventory"}

\* Template literal conversion of the numbers the model uses.
NumberChars(n) ==
    CASE n = 0 -> <<"0">>
      [] n = 1 -> <<"1">>
      [] n = 7 -> <<"7">>
      [] n = 50 -> <<"5", "0">>
      [] n = 200 -> <<"2", "0", "0">>

DefaultLimit == 200

\* The read hooks whose query function is retry(() => api(...)).
ViaRetry_AlsoStats(hook) ==
    hook \in {"usePatients", "useDrugs", "useDeliveries", "useInventoryDrugs", "useStats"}
ViaRetry(hook) ==
    hook \in {"usePatients", "useDrugs", "useDeliveries", "useInventoryDrugs"}

\* usePatientDeliveries: patientId ? api(...) : Promise.resolve([])
\* (arg is None for an undefined patientId).
HasPatient_Never(arg) == FALSE
HasPatient(arg) == arg # None /\ arg[1] # 0

\* The path of the read hooks' api call.
ReadPath(hook, arg) ==
    CASE hook = "usePatients" -> <<"/", "p", "a", "t", "i", "e", "n", "t", "s">>
      [] hook = "useDrugs" -> <<"/", "d", "r", "u", "g", "s">>
      [] hook = "useDeliveries" -> <<"/", "d", "e", "l", "i", "v", "e", "r", "i", "e", "s">>
      [] hook = "useStats" -> <<"/", "s", "t", "a", "t", "s">>
      [] hook = "useInventoryDrugs" -> <<"/", "d", "r", "u", "g", "s">>
      [] hook = "useInventorySummary" -> <<"/", "i", "n", "v", "e", "n", "t", "o", "r", "y", "/", "s", "u", "m", "m", "a", "r", "y">>
      [] hook = "useInventoryTransactions" ->
            <<"/", "i", "n", "v", "e", "n", "t", "o", "r", "y", "/", "t", "r", "a", "n", "s", "a", "c", "t", "i", "o", "n", "s", "?", "l", "i", "m", "i", "t", "=">> \o NumberChars(arg[1])
      [] hook = "usePatientDeliveries" ->
            <<"/", "d", "e", "l", "i", "v", "e", "r", "i", "e", "s", "/", "p", "a", "t", "i", "e", "n", "t", "/">> \o NumberChars(arg[1])

\* The arguments the components pass to the read hooks.
ReadArgs(hook) ==
    CASE hook = "useInventoryTransactions" -> {Some(DefaultLimit), Some(50)}
      [] hook = "usePatientDeliveries" -> {None, Some(0), Some(7)}
      [] OTHER -> {None}

\* The path and options of the write hooks' api call.
WritePath(hook, v) ==
    CASE hook = "useAddPatient" -> <<"/", "p", "a", "t", "i", "e", "n", "t", "s">>
      [] hook = "useAddDrug" -> <<"/", "d", "r", "u", "g", "s">>
      [] hook = "useAddDelivery" -> <<"/", "d", "e", "l", "i", "v", "e", "r", "i", "e", "s">>
      [] hook = "useUpdateDeliveryStatus" ->
            <<"/", "d", "e", "l", "i", "v", "e", "r", "i", "e", "s", "/">> \o NumberChars(v.id) \o <<"/", "s", "t", "a", "t", "u", "s">>
      [] hook = "useAdjustInventory" -> <<"/", "i", "n", "v", "e", "n", "t", "o", "r", "y", "/", "a", "d", "j", "u", "s", "t">>

WriteMethod(hook) ==
    IF hook = "useUpdateDeliveryStatus" THEN "PATCH" ELSE "POST"

\* JSON.stringify of the mutation's variables.
WriteBody(hook, v) ==
    CASE hook = "useUpdateDeliveryStatus" -> "{\"status\":\"" \o v.status \o "\"}"
      [] hook = "useAddDelivery" ->
            "{\"patient_id\":" \o ToString(v.patient_id)
                \o ",\"drug_id\":" \o ToString(v.drug_id)
                \o ",\"scheduled_for\":\"" \o v.scheduled_for
                \o "\",\"status\":\"" \o v.status \o "\"}"
      [] hook = "useAdjustInventory" ->
            "{\"drug_id\":" \o ToString(v.drug_id) \o ",\"delta\":" \o ToString(v.delta)
                \o ",\"reason\":\"" \o v.reason \o "\"}"
      [] OTHER -> "{\"name\":\"" \o v.name \o "\"}"

WriteOptions(hook, v) == [method |-> WriteMethod(hook), body |-> WriteBody(hook, v)]

\* The variables the components pass to the mutations.
WriteArgs(hook) ==
    CASE hook = "useUpdateDeliveryStatus" ->
            [id : {1, 7}, status : {"delivered", "cancelled"}]
      [] hook = "useAdjustInventory" ->
            [drug_id : {7}, delta : {0 - 3, 1}, reason : {"manual"}]
      [] hook = "useAddDelivery" ->
            [patient_id : {1}, drug_id : {7}, scheduled_for : {"2025-01-01"},
             status : {"pending", "delivered"}]
      [] OTHER -> [name : {"A"}]

\* Keys
KeyPatients == <<"patients">>
KeyDrugs == <<"drugs">>
KeyDeliveries == <<"deliveries">>
KeyStats == <<"stats">>
KeyInventory == <<"inventory">>
KeyInventorySummary == <<"inventory", "summary">>
KeyInventoryTransactions == <<"inventory", "transactions">>

\* onSuccess: the keys passed to qc.invalidateQueries, in order.
OnSuccessKeys_SummaryOnly(hook) ==
    CASE hook = "useAddPatient" -> <<KeyPatients>>
      [] hook = "useAddDrug" -> <<KeyDrugs>>
      [] hook = "useAddDelivery" -> <<KeyDeliveries>>
      [] hook = "useUpdateDeliveryStatus" -> <<KeyDeliveries>>
      [] hook = "useAdjustInventory" -> <<KeyInventorySummary>>
OnSuccessKeys(hook) ==
    CASE hook = "useAddPatient" -> <<KeyPatients>>
      [] hook = "useAddDrug" -> <<KeyDrugs>>
      [] hook = "useAddDelivery" -> <<KeyDeliveries>>
      [] hook = "useUpdateDeliveryStatus" -> <<KeyDeliveries>>
      [] hook = "useAdjustInventory" ->
            <<KeyInventory, KeyInventorySummary, KeyInventoryTransactions>>

\* queryKey of the read hooks; a number in a key is written as its digits.
QueryKey(hook, arg) ==
    CASE hook = "usePatients" -> KeyPatients
      [] hook = "useDrugs" -> KeyDrugs
      [] hook = "useDeliveries" -> KeyDeliveries
      [] hook = "useStats" -> KeyStats
      [] hook = "useInventoryDrugs" -> KeyInventory
      [] hook = "useInventorySummary" -> KeyInventorySummary
      [] hook = "useInventoryTransactions" ->
            KeyInventoryTransactions \o <<ToString(arg[1])>>
      [] hook = "usePatientDeliveries" ->
            <<"patient-deliveries",
              IF arg = None THEN "undefined" ELSE ToString(arg[1])>>

\* The queries the components observe.
QueryKeys ==
    UNION {{QueryKey(hook, arg) : arg \in ReadArgs(hook)} : hook \in ReadHooks}

\* qc.invalidateQueries({queryKey}) selects the queries whose key starts
\* with queryKey and marks them invalidated.
Matches(queryKey, key) ==
    /\ Len(queryKey) <= Len(key)
    /\ SubSeq(key, 1, Len(queryKey)) = queryKey
Invalidate(c, queryKeys) ==
    [k \in DOMAIN c |->
        IF \E i \in 1..Len(queryKeys) : Matches(queryKeys[i], k)
        THEN [c[k] EXCEPT !.invalidated = TRUE]
        ELSE c[k]]

\* The query client stores the value a query function resolved with under
\* the query's key, as current data.
AfterQueryFn(op) ==
    cache' = IF qPc' = "done" /\ qPromise'.state = "resolved"
             THEN [cache EXCEPT ![QueryKey(op.hook, op.arg)] =
                      [data |-> Some(qPromise'.v), invalidated |-> FALSE]]
             ELSE cache

EmptyList == Obj("[]")
NoOp == [hook |-> "none", arg |-> None]

\* A continuation of an await is due: it runs before any other event.
ReadDue ==
    /\ qCall # 0
    /\ apiCalls[qCall].pc = "done"
    /\ \/ qPc = "direct"
       \/ qPc = "retry" /\ rPc = "awaitFn"
WriteDue == mPc = "awaitApi" /\ apiCalls[mCall].pc = "done"
AiDue == \E w \in aiPanel.awaiting : apiCalls[w.call].pc = "done"
Quiet == ~ReadDue /\ ~WriteDue /\ ~AiDue

\* retry's fn, () => api(path), called when RetryIter has invoked fn;
\* otherwise retry has thrown and the query function rejects.
ReadFnCall(op) ==
    IF rCalls' > rCalls
    THEN /\ ApiStart(ReadPath(op.hook, op.arg), EmptyObject, DEFAULT_TIMEOUT)
         /\ qCall' = Len(apiCalls) + 1
         /\ qPc' = "retry"
         /\ UNCHANGED qPromise
    ELSE /\ qPc' = "done"
         /\ qPromise' = rPromise'
         /\ UNCHANGED <<apiVars, qCall>>

\* The query function of a read hook is run by the query client.
QueryFn(hook, arg) ==
    /\ Quiet
    /\ qPc = "idle"
    /\ qOp' = [hook |-> hook, arg |-> arg]
    /\ IF ViaRetry(hook)
       THEN /\ RetryEnter
            /\ ReadFnCall([hook |-> hook, arg |-> arg])
       ELSE IF hook = "usePatientDeliveries" /\ ~HasPatient(arg)
       THEN /\ qPc' = "done"
            /\ qPromise' = Resolved(EmptyList)
            /\ UNCHANGED <<retryVars, apiVars, qCall>>
       ELSE /\ ApiStart(ReadPath(hook, arg), EmptyObject, DEFAULT_TIMEOUT)
            /\ qCall' = Len(apiCalls) + 1
            /\ qPc' = "direct"
            /\ UNCHANGED <<retryVars, qPromise>>
    /\ AfterQueryFn([hook |-> hook, arg |-> arg])
    /\ UNCHANGED <<writeVars, envVars>>

\* The api call the query function awaits has settled.
QueryFnContinue ==
    /\ ReadDue
    /\ IF qPc = "direct"
       THEN /\ qPc' = "done"
            /\ qPromise' = apiCalls[qCall].promise
            /\ UNCHANGED retryVars
       ELSE IF apiCalls[qCall].promise.state = "resolved"
       THEN /\ RetryReturn(apiCalls[qCall].promise.v)
            /\ qPc' = "done"
            /\ qPromise' = rPromise'
       ELSE /\ RetryCatch(apiCalls[qCall].promise.v)
            /\ UNCHANGED <<qPc, qPromise>>
    /\ AfterQueryFn(qOp)
    /\ UNCHANGED <<apiVars, qOp, qCall, writeVars, envVars>>

\* The backoff delay of the read's retry is over.
QueryFnDelayElapsed ==
    /\ Quiet
    /\ qPc = "retry"
    /\ rPc = "delay"
    /\ RetryDelayElapsed
    /\ ReadFnCall(qOp)
    /\ AfterQueryFn(qOp)
    /\ UNCHANGED <<qOp, writeVars, envVars>>

\* mutate(variables): the mutation function is called.
MutationFn(hook, v) ==
    /\ Quiet
    /\ mPc = "idle"
    /\ mOp' = [hook |-> hook, arg |-> v]
    /\ ApiStart(WritePath(hook, v), WriteOptions(hook, v), DEFAULT_TIMEOUT)
    /\ mCall' = Len(apiCalls) + 1
    /\ mPc' = "awaitApi"
    /\ UNCHANGED <<mPromise, invalidated, cache, retryVars, readVars, envVars>>

\* qc.invalidateQueries({ queryKey }) for each key of the list.  The matching
\* queries are marked invalidated and refetched; a fetch in flight for a
\* matching query that already has data is cancelled (its result is
\* dropped), a first fetch in flight is left to complete.
InvalidateQueries(queryKeys) ==
    LET cancels ==
            /\ qPc \in {"retry", "direct"}
            /\ \E i \in 1..Len(queryKeys) :
                  Matches(queryKeys[i], QueryKey(qOp.hook, qOp.arg))
            /\ cache[QueryKey(qOp.hook, qOp.arg)].data # None
    IN  /\ invalidated' = invalidated \o queryKeys
        /\ cache' = Invalidate(cache, queryKeys)
        /\ qPc' = IF cancels THEN "cancelled" ELSE qPc
        /\ UNCHANGED <<qOp, qCall, qPromise>>

\* onSuccess: qc.invalidateQueries for each key of the hook.
OnSuccess(hook) == InvalidateQueries(OnSuccessKeys(hook))

\* The api call of the mutation function has settled: onSuccess runs when
\* it resolved, and the mutation settles with the call's outcome.
MutationContinue_RetryOnFailure ==
    /\ WriteDue
    /\ IF apiCalls[mCall].promise.state = "rejected" /\ Len(requests) < 5
       THEN /\ ApiStart(WritePath(mOp.hook, mOp.arg), WriteOptions(mOp.hook, mOp.arg),
                        DEFAULT_TIMEOUT)
            /\ mCall' = Len(apiCalls) + 1
            /\ UNCHANGED <<mPc, mPromise, invalidated, cache, readVars>>
       ELSE /\ mPc' = "done"
            /\ mPromise' = apiCalls[mCall].promise
            /\ IF apiCalls[mCall].promise.state = "resolved"
               THEN OnSuccess(mOp.hook)
               ELSE UNCHANGED <<invalidated, cache, readVars>>
            /\ UNCHANGED <<apiVars, mCall>>
    /\ UNCHANGED <<mOp, retryVars, envVars>>
MutationContinue_OnSettled ==
    /\ WriteDue
    /\ mPc' = "done"
    /\ mPromise' = apiCalls[mCall].promise
    /\ OnSuccess(mOp.hook)
    /\ UNCHANGED <<apiVars, mOp, mCall, retryVars, envVars>>
MutationContinue ==
    /\ WriteDue
    /\ mPc' = "done"
    /\ mPromise' = apiCalls[mCall].promise
    /\ IF apiCalls[mCall].promise.state = "resolved"
       THEN OnSuccess(mOp.hook)
       ELSE UNCHANGED <<invalidated, cache, readVars>>
    /\ UNCHANGED <<apiVars, mOp, mCall, retryVars, envVars>>

\* DeliveryForm: useState's initial formData.
InitialFormData ==
    [patientId |-> "", drugId |-> "", deliveryDate |-> "", status |-> "pending"]

HookInit ==
    /\ qPc = "idle"
    /\ qOp = NoOp
    /\ qCall = 0
    /\ qPromise = Pending
    /\ mPc = "idle"
    /\ mOp = NoOp
    /\ mCall = 0
    /\ mPromise = Pending
    /\ invalidated = <<>>

\* The tables the endpoint of a read hook reads, and the table a write
\* hook's endpoint writes.
TablesRead(hook) ==
    CASE hook = "usePatients" -> {"patients"}
      [] hook \in {"useDrugs", "useInventoryDrugs"} -> {"drugs", "inventory"}
      [] hook \in {"useDeliveries", "usePatientDeliveries"} -> {"deliveries"}
      [] hook = "useStats" -> {"patients", "drugs", "deliveries"}
      [] hook \in {"useInventorySummary", "useInventoryTransactions"} -> {"inventory"}
TableWritten(hook) ==
    CASE hook = "useAddPatient" -> "patients"
      [] hook = "useAddDrug" -> "drugs"
      [] hook \in {"useAddDelivery", "useUpdateDeliveryStatus"} -> "deliveries"
      [] hook = "useAdjustInventory" -> "inventory"

\* The value a read hook's query function resolves with when the backend
\* computed the payload in state d.
Snapshot(hook, d) == JsonParse(SnapshotBody(TablesRead(hook), d)).v

\* The read hook that observes the query with key k.
HookOfKey(k) ==
    CHOOSE h \in ReadHooks : \E a \in ReadArgs(h) : QueryKey(h, a) = k

\* The query cache: empty, or holding for every enabled query the data
\* fetched from the backend in its initial state.
CacheInit(loaded) ==
    cache = [k \in QueryKeys |->
               [data |-> IF loaded /\ k # QueryKey("usePatientDeliveries", None)
                         THEN Some(Snapshot(HookOfKey(k), [t \in Tables |-> 0]))
                         ELSE None,
                invalidated |-> FALSE]]

\* RefreshButton: useState(false); no doRefresh has been called.  queryKeys
\* is the prop of the render in which doRefresh was last called, calls the
\* number of its calls, awaiting the number of calls waiting in their await,
\* settled how the last await ended and timers the delays of the pending
\* setTimeout callbacks.
InitialRefreshButton ==
    [spinning |-> FALSE, queryKeys |-> None, calls |-> 0, awaiting |-> 0,
     settled |-> "none", timers |-> <<>>]

\* AiAssistPanel: the initial values of its useState calls.  awaiting holds
\* the handler calls that wait in their await, each with the api call it
\* awaits, and early the handler that last returned without sending.
InitialAiPanel ==
    [ history |-> << [role |-> "assistant",
                      content |-> "Hi! Ask me about patients, deliveries or generate an image."] >>,
      chatInput |-> "", chatLoading |-> FALSE,
      imgPrompt |-> "Colorful abstract for medication adherence",
      imgStyle |-> "cool", imgSize |-> "md", imgLoading |-> FALSE, images |-> <<>>,
      rewriteMode |-> "simplify", rewriteInput |-> "",
      rewriteOutput |-> Str(""), rewriteLoading |-> FALSE,
      awaiting |-> {}, early |-> "none" ]

\* The backend, the merge, the delivery form and the other components
\* before anything has run.
EnvInit ==
    /\ db = [t \in Tables |-> 0]
    /\ served = <<>>
    /\ heap = <<>>
    /\ mergeArgs = <<>>
    /\ mergeOut = <<>>
    /\ formData = InitialFormData
    /\ refreshButton = InitialRefreshButton
    /\ aiPanel = InitialAiPanel

----------------------------------------------------------------------------
(* SpecApi: one call of api with arbitrary arguments and any server *)

OptionsArgs ==
    { EmptyObject,
      [method |-> "POST", body |-> "{}"],
      [headers |-> ("Authorization" :> "Bearer t")],
      [headers |-> ("Authorization" :> "Bearer t"), method |-> "POST", body |-> "{}"],
      [headers |-> ("Content-Type" :> "text/plain"), method |-> "POST", body |-> "a=1"],
      [signal |-> "caller"],
      [signal |-> "caller", method |-> "PATCH", body |-> "{}"] }
PathArgs == {PathPatients, PathAbsolute, PathUpperScheme, PathHttpWord}
TimeoutArgs == {DEFAULT_TIMEOUT, 50}

ReasonPhrase(status) ==
    CASE status = 200 -> "OK"
      [] status = 204 -> "No Content"
      [] status = 299 -> "Custom"
      [] status = 304 -> "Not Modified"
      [] status = 404 -> "Not Found"
      [] status = 422 -> "Unprocessable Entity"
      [] status = 500 -> "Internal Server Error"

Statuses == {200, 204, 299, 304, 404, 422, 500}
NoBodyStatuses == {204, 304}
ContentTypes == {None, Some(CtJson), Some(CtJsonCharset), Some(CtText),
                 Some(CtOtherCase), Some(CtProblem)}
Bodies == { "{\"detail\":\"Not found\"}", "{\"detail\":\"\"}",
            "{\"detail\":[{\"msg\":\"bad\"}]}", "{ \"error\": \"x\" }",
            "[ {\"id\":1} ]", "\"oops\"", "null", "<html>", "" }
Responses ==
    [status : Statuses, statusText : {""}, ct : ContentTypes, body : Bodies]

ApiCall ==
    /\ apiCalls = <<>>
    /\ \E p \in PathArgs, o \in OptionsArgs, t \in TimeoutArgs : ApiStart(p, o, t)
    /\ UNCHANGED <<retryVars, hookVars, envVars>>
\* Responses with status 204 or 304 carry no body; over HTTP/2 a response has
\* no reason phrase.
Respond ==
    /\ \E r \in Responses, http2 \in BOOLEAN :
          /\ r.status \in NoBodyStatuses => r.body = ""
          /\ FetchResponds(1, [r EXCEPT !.statusText =
                                   IF http2 THEN "" ELSE ReasonPhrase(r.status)])
    /\ UNCHANGED <<retryVars, hookVars, envVars>>
NetworkFailure == FetchFails(1) /\ UNCHANGED <<retryVars, hookVars, envVars>>
BodyRead == BodyArrives(1) /\ UNCHANGED <<retryVars, hookVars, envVars>>
BodyReadFailure == BodyFails(1) /\ UNCHANGED <<retryVars, hookVars, envVars>>
Timeout == TimerFires(1) /\ UNCHANGED <<retryVars, hookVars, envVars>>
CallerAbort == CallerAborts(1) /\ UNCHANGED <<retryVars, hookVars, envVars>>

InitApi ==
    ApiInit /\ RetryInit({DefaultAttempts}, {DefaultBaseDelay}) /\ HookInit /\ CacheInit(FALSE) /\ EnvInit
NextApi ==
    \/ ApiCall \/ Respond \/ NetworkFailure \/ BodyRead \/ BodyReadFailure
    \/ Timeout \/ CallerAbort
SpecApi == InitApi /\ [][NextApi]_vars

----------------------------------------------------------------------------
(* SpecRetry: one call retry(fn, attempts, baseDelay) on an arbitrary fn *)

FnCall == RetryEnter /\ UNCHANGED <<apiVars, hookVars, envVars>>
FnResolves == (\E v \in FnValues : RetryReturn(v)) /\ UNCHANGED <<apiVars, hookVars, envVars>>
FnRejects == (\E e \in FnErrors : RetryCatch(e)) /\ UNCHANGED <<apiVars, hookVars, envVars>>
DelayElapsed == RetryDelayElapsed /\ UNCHANGED <<apiVars, hookVars, envVars>>

InitRetry ==
    RetryInit(AttemptsArgs, BaseDelayArgs) /\ ApiInit /\ HookInit /\ CacheInit(FALSE) /\ EnvInit
NextRetry == FnCall \/ FnResolves \/ FnRejects \/ DelayElapsed
SpecRetry == InitRetry /\ [][NextRetry]_vars

----------------------------------------------------------------------------
(* Spec: one hook operation, a query function or a mutation, run by the     *)
(* query client against a backend that may answer, fail or stay silent     *)

HookResponses ==
    [status : {200, 404}, statusText : {""}, ct : {Some(CtJson)},
     body : {"[ {\"id\":1} ]", "{\"detail\":\"Not found\"}"}]

Read ==
    /\ mPc = "idle"
    /\ \E hook \in ReadHooks : \E arg \in ReadArgs(hook) : QueryFn(hook, arg)
Write ==
    /\ qPc = "idle"
    /\ \E hook \in WriteHooks : \E v \in WriteArgs(hook) : MutationFn(hook, v)
ServerResponds ==
    /\ Quiet
    /\ \E c \in 1..Len(apiCalls), r \in HookResponses :
          FetchResponds(c, [r EXCEPT !.statusText = ReasonPhrase(r.status)])
    /\ UNCHANGED <<retryVars, hookVars, envVars>>
NetworkFails ==
    /\ Quiet
    /\ \E c \in 1..Len(apiCalls) : FetchFails(c)
    /\ UNCHANGED <<retryVars, hookVars, envVars>>
BodyComplete ==
    /\ Quiet
    /\ \E c \in 1..Len(apiCalls) : BodyArrives(c)
    /\ UNCHANGED <<retryVars, hookVars, envVars>>
BodyBreaks ==
    /\ Quiet
    /\ \E c \in 1..Len(apiCalls) : BodyFails(c)
    /\ UNCHANGED <<retryVars, hookVars, envVars>>
TimeoutExpires ==
    /\ Quiet
    /\ \E c \in 1..Len(apiCalls) : TimerFires(c)
    /\ UNCHANGED <<retryVars, hookVars, envVars>>

Init ==
    RetryInit({DefaultAttempts}, {DefaultBaseDelay}) /\ ApiInit /\ HookInit /\ CacheInit(FALSE) /\ EnvInit
Next ==
    \/ Read \/ QueryFnContinue \/ QueryFnDelayElapsed
    \/ Write \/ MutationContinue
    \/ ServerResponds \/ NetworkFails \/ BodyComplete \/ BodyBreaks \/ TimeoutExpires
Spec == Init /\ [][Next]_vars

----------------------------------------------------------------------------
(* SpecCache: the reads of the inventory panel and one write run           *)
(* concurrently against a backend that commits the write and answers       *)
(* every request; the query client refetches what was invalidated          *)

\* The read hooks the inventory panel mounts.
PanelHooks == {"useInventoryDrugs", "useInventorySummary", "useInventoryTransactions"}

\* The backend handles a request the client still waits for: a write is
\* committed or refused, a read is answered from the tables as they are now.
BackendHandles ==
    LET Answer(status, body) ==
            [status |-> status, statusText |-> ReasonPhrase(status),
             ct |-> Some(CtJson), body |-> body]
        ReadHookOf(url) ==
            CHOOSE h \in PanelHooks :
                \E a \in ReadArgs(h) : RequestUrl(ReadPath(h, a)) = url
    IN
    /\ Quiet
    /\ \E c \in 1..Len(apiCalls) :
          /\ c \notin DOMAIN served
          /\ apiCalls[c].pc = "fetch"
          /\ IF c = mCall
             THEN \E ok \in BOOLEAN :
                    /\ db' = IF ok THEN [db EXCEPT ![TableWritten(mOp.hook)] = @ + 1]
                                   ELSE db
                    /\ served' = served @@ (c :>
                          IF ok THEN Answer(200, "[ {\"id\":1} ]")
                          ELSE Answer(404, "{\"detail\":\"Not found\"}"))
             ELSE /\ served' = served @@ (c :>
                        Answer(200, SnapshotBody(
                            TablesRead(ReadHookOf(requests[RequestOf(c)].url)), db)))
                  /\ UNCHANGED db
    /\ UNCHANGED <<retryVars, apiVars, hookVars, mergeVars, formVars, uiVars>>

\* The backend's answer reaches the client.
BackendResponds ==
    /\ Quiet
    /\ \E c \in DOMAIN served : FetchResponds(c, served[c])
    /\ UNCHANGED <<retryVars, hookVars, envVars>>

\* The panel reads the transactions with limit 200; a write is made with
\* one value of its variables.
WriteArg ==
    [hook \in WriteHooks |->
        CASE hook = "useUpdateDeliveryStatus" -> [id |-> 7, status |-> "delivered"]
          [] hook = "useAdjustInventory" ->
                [drug_id |-> 7, delta |-> 0 - 3, reason |-> "manual"]
          [] hook = "useAddDelivery" ->
                [patient_id |-> 1, drug_id |-> 7, scheduled_for |-> "2025-01-01",
                 status |-> "pending"]
          [] OTHER -> [name |-> "A"]]
PanelRead ==
    \E hook \in PanelHooks :
        QueryFn(hook, IF hook = "useInventoryTransactions"
                      THEN Some(DefaultLimit) ELSE None)
AnyWrite == \E hook \in WriteHooks : MutationFn(hook, WriteArg[hook])

\* The query client is ready to fetch again a query that was invalidated,
\* once its last fetch has settled or was cancelled.
Refetch ==
    /\ Quiet
    /\ qPc \in {"done", "cancelled"}
    /\ cache[QueryKey(qOp.hook, qOp.arg)].invalidated
    /\ Len(apiCalls) < MaxCalls
    /\ qPc' = "idle"
    /\ qOp' = NoOp
    /\ qCall' = 0
    /\ qPromise' = Pending
    /\ rPc' = "idle"
    /\ rI' = 0
    /\ rLastErr' = Undefined
    /\ rPromise' = Pending
    /\ rCalls' = 0
    /\ rHist' = <<>>
    /\ rWaits' = <<>>
    /\ rClock' = 0
    /\ UNCHANGED <<rAttempts, rBaseDelay, apiVars, writeVars, cache, envVars>>

InitCache ==
    /\ RetryInit({DefaultAttempts}, {DefaultBaseDelay})
    /\ ApiInit
    /\ HookInit
    /\ \E loaded \in BOOLEAN : CacheInit(loaded)
    /\ EnvInit
NextCache ==
    \/ PanelRead \/ QueryFnContinue \/ QueryFnDelayElapsed
    \/ AnyWrite \/ MutationContinue
    \/ BackendHandles \/ BackendResponds \/ BodyComplete \/ TimeoutExpires
    \/ Refetch
SpecCache == InitCache /\ [][NextCache]_vars

----------------------------------------------------------------------------
(* SpecMerge: mergeInventory and the inventory panel's merge, called on     *)
(* lists of drug and summary records.  A record is an object on the heap,  *)
(* a list holds references (indices of heap), undefined is None.           *)

\* The records the inventory reads delivered: two drugs, a summary of
\* drug 1 that also carries a stock, a second summary of drug 1, and a
\* summary of a drug that is not listed.
InitialHeap ==
    << [id |-> 1, name |-> "A", stock |-> 10],
       [id |-> 2, name |-> "B", stock |-> 0],
       [id |-> 1, pending_quantity |-> 5, stock |-> 7],
       [id |-> 1, pending_quantity |-> 9],
       [id |-> 3, pending_quantity |-> 2] >>

\* The lists passed as drugs and as summary: undefined, or up to MaxLen
\* references.
ListsOf(refs) ==
    {None} \cup {Some(l) : l \in UNION {[1..n -> refs] : n \in 0..MaxLen}}

\* map.get(id) || {} on new Map(summary?.map(s => [s.id, s]) || []): the
\* last summary record with that id, {} when there is none.
MapGet_First(summary, id) ==
    LET found == IF summary = None THEN {}
                 ELSE {j \in 1..Len(summary[1]) : heap[summary[1][j]].id = id}
    IN  IF found = {} THEN EmptyObject
        ELSE heap[summary[1][CHOOSE j \in found : \A k \in found : j <= k]]
MapGet(summary, id) ==
    LET found == IF summary = None THEN {}
                 ELSE {j \in 1..Len(summary[1]) : heap[summary[1][j]].id = id}
    IN  IF found = {} THEN EmptyObject
        ELSE heap[summary[1][CHOOSE j \in found : \A k \in found : k <= j]]

\* drugs.map(d => ({...d, ...(map.get(d.id) || {})})): a new list of new
\* objects.
MergeRows_InPlace(drugs, summary, by) ==
    /\ heap' = [r \in 1..Len(heap) |->
                  IF \E i \in 1..Len(drugs) : drugs[i] = r
                  THEN Spread(heap[r], MapGet(summary, heap[r].id))
                  ELSE heap[r]]
    /\ mergeOut' = Some([by |-> by, list |-> drugs])
MergeRows_DrugWins(drugs, summary, by) ==
    /\ heap' = heap \o [i \in 1..Len(drugs) |->
                          Spread(MapGet(summary, heap[drugs[i]].id), heap[drugs[i]])]
    /\ mergeOut' = Some([by |-> by, list |-> [i \in 1..Len(drugs) |-> Len(heap) + i]])
MergeRows(drugs, summary, by) ==
    /\ heap' = heap \o [i \in 1..Len(drugs) |->
                          Spread(heap[drugs[i]], MapGet(summary, heap[drugs[i]].id))]
    /\ mergeOut' = Some([by |-> by, list |-> [i \in 1..Len(drugs) |-> Len(heap) + i]])

\* The inventory reads have delivered their data.
InventoryLoaded ==
    /\ mergeArgs = None
    /\ heap' = InitialHeap
    /\ \E drugs \in ListsOf({1, 2}), summary \in ListsOf({3, 4, 5}) :
          mergeArgs' = Some([drugs |-> drugs, summary |-> summary])
    /\ UNCHANGED <<retryVars, apiVars, hookVars, backendVars, mergeOut, formVars, uiVars>>

\* mergeInventory(drugs, summary)
MergeInventory ==
    /\ mergeArgs # None
    /\ mergeOut = None
    /\ IF mergeArgs[1].drugs = None
       THEN /\ mergeOut' = Some([by |-> "mergeInventory", list |-> <<>>])
            /\ UNCHANGED heap
       ELSE MergeRows(mergeArgs[1].drugs[1], mergeArgs[1].summary, "mergeInventory")
    /\ UNCHANGED <<retryVars, apiVars, hookVars, backendVars, mergeArgs, formVars, uiVars>>

\* InventoryPanel: metrics and rows.
PanelMerge ==
    /\ mergeArgs # None
    /\ mergeOut = None
    /\ MergeRows(IF mergeArgs[1].drugs = None THEN <<>> ELSE mergeArgs[1].drugs[1],
                 mergeArgs[1].summary, "InventoryPanel")
    /\ UNCHANGED <<retryVars, apiVars, hookVars, backendVars, mergeArgs, formVars, uiVars>>

NextMerge == InventoryLoaded \/ MergeInventory \/ PanelMerge
SpecMerge == Init /\ [][NextMerge]_vars

----------------------------------------------------------------------------
(* SpecForm: the delivery form and the status selector of the delivery     *)
(* history, each sending its mutation to a backend that answers or fails   *)

\* The values of the SelectItems of the status selectors.
StatusItems_FreeText == {"pending", "delivered", "missed", "cancelled", "shipped"}
StatusItems == {"pending", "delivered", "missed", "cancelled"}

\* The values a select of the form offers: the ids of the listed patients
\* and drugs as text, and the status items.
SelectItems(name) ==
    CASE name = "patientId" -> {"1"}
      [] name = "drugId" -> {"7"}
      [] name = "status" -> StatusItems

\* parseInt on the text of an id.
ParseInt(text) ==
    CASE text = "1" -> 1
      [] text = "7" -> 7

\* handleSelectChange(name, value), called by the select named `name`.
HandleSelectChange ==
    /\ \E name \in {"patientId", "drugId", "status"} :
          \E value \in SelectItems(name) :
              formData' = [formData EXCEPT ![name] = value]
    /\ UNCHANGED <<retryVars, apiVars, hookVars, backendVars, mergeVars, uiVars>>

\* handleInputChange(e), called by the date input.
HandleInputChange ==
    /\ \E value \in {"", "2025-01-01"} :
          formData' = [formData EXCEPT !["deliveryDate"] = value]
    /\ UNCHANGED <<retryVars, apiVars, hookVars, backendVars, mergeVars, uiVars>>

\* handleSubmit up to its await: the form submits when its required fields
\* are filled and the button is not disabled.
HandleSubmit ==
    /\ formData.patientId # ""
    /\ formData.drugId # ""
    /\ formData.deliveryDate # ""
    /\ Len(apiCalls) < MaxSubmits
    /\ MutationFn("useAddDelivery",
                  [patient_id |-> ParseInt(formData.patientId),
                   drug_id |-> ParseInt(formData.drugId),
                   scheduled_for |-> formData.deliveryDate,
                   status |-> formData.status])

\* updateDeliveryStatus(id, status) up to its await, called by the status
\* selector of a listed delivery.
UpdateDeliveryStatus ==
    /\ Len(apiCalls) < MaxSubmits
    /\ \E id \in {7}, value \in StatusItems :
          MutationFn("useUpdateDeliveryStatus", [id |-> id, status |-> value])

\* The await of mutateAsync returns or throws: handleSubmit resets the form
\* after a success, and the mutation is ready to be used again.
AfterMutateAsync ==
    /\ mPc = "done"
    /\ formData' = IF mOp.hook = "useAddDelivery" /\ mPromise.state = "resolved"
                   THEN [patientId |-> "", drugId |-> "", deliveryDate |-> "",
                         status |-> "pending"]
                   ELSE formData
    /\ mPc' = "idle"
    /\ mOp' = NoOp
    /\ mCall' = 0
    /\ mPromise' = Pending
    /\ UNCHANGED <<retryVars, apiVars, readVars, invalidated, cache, backendVars,
                   mergeVars, uiVars>>

NextForm ==
    \/ HandleSelectChange \/ HandleInputChange \/ HandleSubmit
    \/ UpdateDeliveryStatus \/ MutationContinue \/ AfterMutateAsync
    \/ ServerResponds \/ NetworkFails \/ BodyComplete
SpecForm == Init /\ [][NextForm]_vars

----------------------------------------------------------------------------
(* SpecAi, SpecImages: the AI assistant panel: chat, image generation and   *)
(* rewrite, each sending its request through api() to a backend that        *)
(* answers, fails or stays silent                                           *)

ImageTimeout == 60000
ImageLimit == 12

PathChat == <<"/", "a", "i", "/", "c", "h", "a", "t">>
PathImage == <<"/", "a", "i", "/", "i", "m", "a", "g", "e">>
PathRewrite == <<"/", "a", "i", "/", "r", "e", "w", "r", "i", "t", "e">>

\* String.prototype.trim on the texts the inputs take.
Trim(t) ==
    CASE t = "  " -> ""
      [] t = " hi " -> "hi"
      [] OTHER -> t

\* The texts typed into the chat box, the prompt and the rewrite box.
InputTexts(field) ==
    CASE field = "chatInput" -> {"  ", " hi "}
      [] field = "imgPrompt" -> {"", "Colorful abstract for medication adherence"}
      [] field = "rewriteInput" -> {"", " hi "}

\* JSON.stringify of a list of chat messages (texts without characters to
\* escape).
RECURSIVE MessagesJson(_)
MessagesJson(h) ==
    IF h = <<>> THEN ""
    ELSE "{\"role\":\"" \o h[1].role \o "\",\"content\":\"" \o h[1].content \o "\"}"
         \o (IF Len(h) > 1 THEN "," ELSE "") \o MessagesJson(Tail(h))

\* res.history of the value api resolved with: None when the property is
\* absent or res is not an object, so that res.history.map throws.
HistoryOf(res) ==
    IF res = Obj(ChatBody)
    THEN Some(<< [role |-> "user", content |-> "hi"],
                 [role |-> "bot", content |-> "ok"] >>)
    ELSE None

\* Line 43: m => ({role: m.role === 'assistant' ? 'assistant' : 'user', ...})
Coerce(m) ==
    [role |-> IF m.role = "assistant" THEN "assistant" ELSE "user",
     content |-> m.content]

\* res.rewritten
RewrittenOf(res) == IF res = Obj(RewriteBody) THEN Str("short") ELSE Undefined

\* 'Error: '+(e?.message||e): an Error with an empty message prints as its
\* name.
ErrorText(e) == "Error: " \o (IF e.s # "" THEN e.s ELSE "Error")

\* Line 63: the entry shown for a failed generation.
ErrorImage(e) ==
    Obj("{\"image\":\"\",\"prompt\":\"" \o ErrorText(e)
        \o "\",\"ai\":false,\"width\":0,\"height\":0,\"style\":\"\"}")

\* Array.prototype.slice(0, n)
Slice(list, n) == SubSeq(list, 1, IF Len(list) < n THEN Len(list) ELSE n)

\* The handler calls of `fn` that wait in their await, and the unchanged
\* rest of the program for a step of the panel.
AwaitingOf(fn) == {w \in aiPanel.awaiting : w.fn = fn}
AiFrame == UNCHANGED <<retryVars, hookVars, backendVars, mergeVars, formVars, refreshButton>>

\* onChange of the chat box, the prompt and the rewrite box.
AiInput ==
    /\ \E field \in {"chatInput", "imgPrompt", "rewriteInput"} :
          \E t \in InputTexts(field) \ {aiPanel[field]} :
              aiPanel' = [aiPanel EXCEPT ![field] = t]
    /\ UNCHANGED apiVars
    /\ AiFrame

\* sendChat() up to its await; the Send button is disabled while chatLoading.
SendChat ==
    /\ Quiet
    /\ ~aiPanel.chatLoading
    /\ IF Trim(aiPanel.chatInput) = ""
       THEN /\ aiPanel' = [aiPanel EXCEPT !.early = "sendChat"]
            /\ UNCHANGED apiVars
       ELSE LET newHist == Append(aiPanel.history,
                                  [role |-> "user", content |-> Trim(aiPanel.chatInput)])
            IN  /\ ApiStart(PathChat,
                            [method |-> "POST",
                             body |-> "{\"history\":[" \o MessagesJson(newHist) \o "]}"],
                            DEFAULT_TIMEOUT)
                /\ aiPanel' = [aiPanel EXCEPT
                                 !.history = newHist,
                                 !.chatInput = "",
                                 !.chatLoading = TRUE,
                                 !.awaiting = @ \cup {[fn |-> "sendChat",
                                                       call |-> Len(apiCalls) + 1]}]
    /\ AiFrame

\* The call of sendChat has settled: lines 43-47.
AfterChat ==
    /\ \E w \in AwaitingOf("sendChat") :
          /\ apiCalls[w.call].pc = "done"
          /\ LET p == apiCalls[w.call].promise
                 thrown == IF p.state = "rejected" THEN Some(p.v)
                           ELSE IF HistoryOf(p.v) = None
                           THEN Some(Err("Cannot read properties of undefined", None))
                           ELSE None
             IN aiPanel' = [aiPanel EXCEPT
                   !.history =
                       IF thrown = None
                       THEN [i \in 1..Len(HistoryOf(p.v)[1]) |-> Coerce(HistoryOf(p.v)[1][i])]
                       ELSE Append(@, [role |-> "assistant",
                                       content |-> ErrorText(thrown[1])]),
                   !.chatLoading = FALSE,
                   !.awaiting = @ \ {w}]
    /\ UNCHANGED apiVars
    /\ AiFrame

\* generateImage() up to its await; the button is disabled while imgLoading.
GenerateImage ==
    /\ Quiet
    /\ ~aiPanel.imgLoading
    /\ IF Trim(aiPanel.imgPrompt) = ""
       THEN /\ aiPanel' = [aiPanel EXCEPT !.early = "generateImage"]
            /\ UNCHANGED apiVars
       ELSE LET dims == CASE aiPanel.imgSize = "sm" -> "256"
                          [] aiPanel.imgSize = "lg" -> "768"
                          [] OTHER -> "512"
            IN  /\ ApiStart(PathImage,
                            [method |-> "POST",
                             body |-> "{\"prompt\":\"" \o aiPanel.imgPrompt
                                      \o "\",\"width\":" \o dims \o ",\"height\":" \o dims
                                      \o ",\"style\":\"" \o aiPanel.imgStyle \o "\"}"],
                            ImageTimeout)
                /\ aiPanel' = [aiPanel EXCEPT
                                 !.imgLoading = TRUE,
                                 !.awaiting = @ \cup {[fn |-> "generateImage",
                                                       call |-> Len(apiCalls) + 1]}]
    /\ AiFrame

\* The call of generateImage has settled: lines 61-64.
AfterImage ==
    /\ \E w \in AwaitingOf("generateImage") :
          /\ apiCalls[w.call].pc = "done"
          /\ LET p == apiCalls[w.call].promise IN
             aiPanel' = [aiPanel EXCEPT
                   !.images = IF p.state = "resolved"
                              THEN Slice(<<p.v>> \o @, ImageLimit)
                              ELSE <<ErrorImage(p.v)>> \o @,
                   !.imgLoading = FALSE,
                   !.awaiting = @ \ {w}]
    /\ UNCHANGED apiVars
    /\ AiFrame

\* doRewrite() up to its await; the button is disabled while rewriteLoading.
DoRewrite ==
    /\ Quiet
    /\ ~aiPanel.rewriteLoading
    /\ IF Trim(aiPanel.rewriteInput) = ""
       THEN /\ aiPanel' = [aiPanel EXCEPT !.early = "doRewrite"]
            /\ UNCHANGED apiVars
       ELSE /\ ApiStart(PathRewrite,
                        [method |-> "POST",
                         body |-> "{\"text\":\"" \o aiPanel.rewriteInput
                                  \o "\",\"mode\":\"" \o aiPanel.rewriteMode \o "\"}"],
                        DEFAULT_TIMEOUT)
            /\ aiPanel' = [aiPanel EXCEPT
                             !.rewriteLoading = TRUE,
                             !.awaiting = @ \cup {[fn |-> "doRewrite",
                                                   call |-> Len(apiCalls) + 1]}]
    /\ AiFrame

\* The call of doRewrite has settled: lines 72-74.
AfterRewrite_NoFinally ==
    /\ \E w \in AwaitingOf("doRewrite") :
          /\ apiCalls[w.call].pc = "done"
          /\ LET p == apiCalls[w.call].promise IN
             aiPanel' = [aiPanel EXCEPT
                   !.rewriteOutput = IF p.state = "resolved"
                                     THEN RewrittenOf(p.v)
                                     ELSE Str(ErrorText(p.v)),
                   !.rewriteLoading = p.state # "resolved",
                   !.awaiting = @ \ {w}]
    /\ UNCHANGED apiVars
    /\ AiFrame
AfterRewrite ==
    /\ \E w \in AwaitingOf("doRewrite") :
          /\ apiCalls[w.call].pc = "done"
          /\ LET p == apiCalls[w.call].promise IN
             aiPanel' = [aiPanel EXCEPT
                   !.rewriteOutput = IF p.state = "resolved"
                                     THEN RewrittenOf(p.v)
                                     ELSE Str(ErrorText(p.v)),
                   !.rewriteLoading = FALSE,
                   !.awaiting = @ \ {w}]
    /\ UNCHANGED apiVars
    /\ AiFrame

\* What the backend may answer to a request of the panel.
AiResponses ==
    [status : {200}, statusText : {"OK"}, ct : {Some(CtJson)}, body : AiBodies]
    \cup [status : {500}, statusText : {"Internal Server Error"}, ct : {Some(CtJson)},
          body : {"{\"detail\":\"Not found\"}"}]
AiResponds ==
    /\ Quiet
    /\ \E c \in 1..Len(apiCalls), r \in AiResponses :
          /\ apiCalls[c].path = PathChat => r.body # ImageBody
          /\ apiCalls[c].path = PathImage => r.body \notin {ChatBody, RewriteBody}
          /\ apiCalls[c].path = PathRewrite => r.body # ImageBody
          /\ FetchResponds(c, r)
    /\ UNCHANGED <<retryVars, hookVars, envVars>>

\* The timer of a call fires before the backend has answered.
AiTimeout ==
    /\ Quiet
    /\ \E c \in 1..Len(apiCalls) : apiCalls[c].pc = "fetch" /\ TimerFires(c)
    /\ UNCHANGED <<retryVars, hookVars, envVars>>

\* SpecAi: the three tabs used together, up to MaxAiCalls requests.
AiCall == Len(apiCalls) < MaxAiCalls /\ (SendChat \/ GenerateImage \/ DoRewrite)
NextAi ==
    \/ AiInput \/ AiCall
    \/ AfterChat \/ AfterImage \/ AfterRewrite
    \/ AiResponds \/ BodyComplete \/ AiTimeout
SpecAi == Init /\ [][NextAi]_vars

\* SpecImages: the image tab alone, up to MaxGenerations generations, each
\* answered with an image or failing.
ImageResponds ==
    /\ Quiet
    /\ \E c \in 1..Len(apiCalls) :
          FetchResponds(c, [status |-> 200, statusText |-> "OK", ct |-> Some(CtJson),
                            body |-> ImageBody])
    /\ UNCHANGED <<retryVars, hookVars, envVars>>
NextImages ==
    \/ (Len(apiCalls) < MaxGenerations /\ GenerateImage)
    \/ AfterImage
    \/ ImageResponds \/ NetworkFails \/ BodyComplete
SpecImages == Init /\ [][NextImages]_vars

----------------------------------------------------------------------------
(* SpecRefresh: the refresh button of the page, clicked while the           *)
(* inventory panel reads through the query client                           *)

\* setTimeout(..., 400)
SpinDelay == 400

\* Lines 24-27: the keys invalidated when no queryKeys are given.
FallbackKeys_WithStats == <<KeyPatients, KeyDrugs, KeyDeliveries, KeyInventory, KeyStats>>
FallbackKeys == <<KeyPatients, KeyDrugs, KeyDeliveries, KeyInventory>>

\* The queryKeys prop: absent, or a list of query keys.
QueryKeysProps == {None, Some(<<>>), Some(<<KeyInventorySummary, KeyPatients>>)}

\* onClick={doRefresh} disabled={spinning}: doRefresh up to its await.  The
\* query client marks the matching queries at once; the promise awaited
\* settles later.
DoRefresh ==
    /\ Quiet
    /\ ~refreshButton.spinning
    /\ refreshButton.calls < MaxRefreshes
    /\ \E queryKeys \in QueryKeysProps :
          /\ InvalidateQueries(IF queryKeys # None /\ Len(queryKeys[1]) # 0
                               THEN queryKeys[1] ELSE FallbackKeys)
          /\ refreshButton' = [refreshButton EXCEPT !.spinning = TRUE,
                                                    !.queryKeys = queryKeys,
                                                    !.calls = @ + 1,
                                                    !.awaiting = @ + 1]
    /\ UNCHANGED <<retryVars, apiVars, mPc, mOp, mCall, mPromise, backendVars,
                   mergeVars, formVars, aiPanel>>

\* The promise of Promise.all settles, resolved or rejected: the finally
\* block arms the timer that resets the spinner.
AfterInvalidate_NoFinally ==
    /\ refreshButton.awaiting > 0
    /\ \E settled \in {"resolved", "rejected"} :
          refreshButton' = [refreshButton EXCEPT
                               !.awaiting = @ - 1,
                               !.settled = settled,
                               !.timers = IF settled = "resolved"
                                          THEN Append(@, SpinDelay) ELSE @]
    /\ UNCHANGED <<retryVars, apiVars, hookVars, backendVars, mergeVars, formVars, aiPanel>>
AfterInvalidate ==
    /\ refreshButton.awaiting > 0
    /\ \E settled \in {"resolved", "rejected"} :
          refreshButton' = [refreshButton EXCEPT !.awaiting = @ - 1,
                                                 !.settled = settled,
                                                 !.timers = Append(@, SpinDelay)]
    /\ UNCHANGED <<retryVars, apiVars, hookVars, backendVars, mergeVars, formVars, aiPanel>>

\* The timer fires: setSpinning(false).
SpinTimerFires ==
    /\ refreshButton.timers # <<>>
    /\ refreshButton' = [refreshButton EXCEPT !.spinning = FALSE, !.timers = Tail(@)]
    /\ UNCHANGED <<retryVars, apiVars, hookVars, backendVars, mergeVars, formVars, aiPanel>>

NextRefresh ==
    \/ DoRefresh \/ AfterInvalidate \/ SpinTimerFires
    \/ PanelRead \/ QueryFnContinue
    \/ BackendHandles \/ BackendResponds \/ BodyComplete
    \/ Refetch
SpecRefresh == InitCache /\ [][NextRefresh]_vars

\* SpecSpinner: the button next to one read of the panel.  The event loop
\* runs every settled promise's continuation and every expired timer.
NextSpinner ==
    \/ DoRefresh \/ AfterInvalidate \/ SpinTimerFires
    \/ PanelRead \/ QueryFnContinue
    \/ BackendHandles \/ BackendResponds \/ BodyComplete
SpecSpinner ==
    /\ InitCache
    /\ [][NextSpinner]_vars
    /\ WF_vars(AfterInvalidate)
    /\ WF_vars(SpinTimerFires)

----------------------------------------------------------------------------
(* Properties of retry, checked under SpecRetry *)

AllFailed == \A k \in 1..Len(rHist) : ~rHist[k].ok

\* C1: for attempts >= 1, retry resolves with the result of the first
\* invocation of fn that succeeds, fn is never invoked again after a
\* success, fn is invoked at most `attempts` times, and once an invocation
\* has succeeded no error of an earlier invocation reaches the caller.
C1_FirstSuccessWins ==
    rAttempts >= 1 =>
        /\ rCalls <= rAttempts
        /\ \A k \in 1..Len(rHist) :
              rHist[k].ok => /\ k = Len(rHist)
                             /\ rCalls = k
                             /\ rPc = "done"
                             /\ rPromise = Resolved(rHist[k].v)
        /\ rPromise.state = "resolved" =>
              /\ rHist # <<>>
              /\ rHist[Len(rHist)].ok
        /\ rPromise.state = "rejected" => AllFailed

C1_Witness ==
    /\ rAttempts >= 1
    /\ Len(rHist) >= 2
    /\ ~rHist[1].ok
    /\ rHist[Len(rHist)].ok
    /\ rPromise.state = "resolved"

\* C2: when all `attempts` invocations of fn fail (attempts >= 1), retry
\* rejects with the error of the last invocation and has invoked fn exactly
\* `attempts` times; it rejects in no other case.
C2_ExhaustionRejectsWithLast ==
    rAttempts >= 1 =>
        /\ rPromise.state = "rejected" =>
              /\ rCalls = rAttempts
              /\ Len(rHist) = rAttempts
              /\ AllFailed
              /\ rPromise.v = rHist[Len(rHist)].v
        /\ (Len(rHist) = rAttempts /\ AllFailed) =>
              /\ rCalls = rAttempts
              /\ rPc \in {"delay", "done"}
              /\ rPc = "done" => rPromise = Rejected(rHist[Len(rHist)].v)

C2_Witness ==
    /\ rAttempts = 3
    /\ rPromise.state = "rejected"
    /\ rHist[1].v # rHist[3].v
    /\ rHist[2].v # rHist[3].v

\* C3: the k-th wait is baseDelay*k, it is the wait between the k-th failed
\* invocation and invocation k+1, and with attempts=3, baseDelay=300 and an
\* fn that fails twice and then succeeds the result is the success, the
\* wait before the last invocation is 600 and the waits before it sum to 900.
C3_LinearBackoff ==
    /\ \A k \in 1..Len(rWaits) : rWaits[k] = rBaseDelay * k
    /\ \A k \in 1..Len(rHist) :
          rHist[k].at = SumSeq(SubSeq(rWaits, 1, k - 1))
    /\ ( /\ rAttempts = 3
         /\ rBaseDelay = 300
         /\ Len(rHist) = 3
         /\ ~rHist[1].ok /\ ~rHist[2].ok /\ rHist[3].ok )
       => /\ rPromise = Resolved(rHist[3].v)
          /\ rWaits = <<300, 600>>
          /\ rHist[3].at = 900

C3_Witness ==
    /\ rAttempts = 3
    /\ rBaseDelay = 300
    /\ Len(rHist) = 3
    /\ ~rHist[1].ok /\ ~rHist[2].ok /\ rHist[3].ok
    /\ rPromise.state = "resolved"

\* C22: a wait happens only between two invocations of fn: there is always
\* one wait fewer than invocations, and when all `attempts` invocations have
\* failed retry has rejected after exactly attempts-1 waits, whose total is
\* baseDelay*(1+...+(attempts-1)).
C22_WaitsOnlyBetweenAttempts ==
    rAttempts >= 1 =>
        /\ Len(rWaits) <= rAttempts - 1
        /\ rPc = "delay" => Len(rHist) < rAttempts
        /\ rPromise.state = "rejected" =>
              /\ Len(rWaits) = rAttempts - 1
              /\ rClock = SumSeq([k \in 1..(rAttempts - 1) |-> rBaseDelay * k])

\* C24: called with attempts <= 0, retry never invokes fn and never waits:
\* the call is either not yet made or has rejected with the undefined
\* lastErr; it is never awaiting and never resolved.
C24_NonPositiveAttemptsReject ==
    rAttempts <= 0 =>
        /\ rCalls = 0
        /\ rHist = <<>>
        /\ rWaits = <<>>
        /\ rClock = 0
        /\ rPc \in {"idle", "done"}
        /\ rPc = "idle" => rPromise = Pending
        /\ rPc = "done" => rPromise = Rejected(Undefined)

C24_Witness ==
    /\ rAttempts < 0
    /\ rPc = "done"
    /\ rPromise = Rejected(Undefined)
    /\ rCalls = 0

----------------------------------------------------------------------------
(* Properties of api, checked under SpecApi *)

Calls == 1..Len(apiCalls)
Settled(c) == apiCalls[c].pc = "done"
RequestsOf(c) == {r \in 1..Len(requests) : requests[r].call = c}

\* C4: once the promise returned by api has settled, on whatever path, the
\* timer the call created has been cleared and is no longer pending.
C4_TimerClearedOnEveryExit ==
    \A c \in Calls :
        Settled(c) => /\ ~apiCalls[c].timerPending
                      /\ apiCalls[c].timerCleared

C4_Witness ==
    \E c \in Calls :
        /\ Settled(c)
        /\ apiCalls[c].promise.state = "rejected"
        /\ apiCalls[c].failure = "decode"
        /\ ~apiCalls[c].timerFired

\* The body's detail property, when the body is valid JSON and has one.
BodyDetail(body) ==
    LET p == JsonParse(body) IN
    IF p.ok /\ GetDetail(p.v).ok /\ GetDetail(p.v).v # Undefined
    THEN Some(GetDetail(p.v).v) ELSE None

\* C5 as stated: for a non-success response the error carries the status,
\* and its message is the body's detail when the body is valid JSON with a
\* detail field and statusText in every other case.
C5_MessageIsDetailOrStatusText ==
    \A c \in Calls :
        (Settled(c) /\ apiCalls[c].read = "ok" /\ ~IsOk(apiCalls[c].res.status)) =>
            /\ apiCalls[c].promise.state = "rejected"
            /\ apiCalls[c].promise.v.status = Some(apiCalls[c].res.status)
            /\ LET d == BodyDetail(apiCalls[c].res.body) IN
               IF d # None
               THEN apiCalls[c].promise.v.s = JsToString(d[1])
               ELSE apiCalls[c].promise.v.s = apiCalls[c].res.statusText

\* C5 as amended: the error carries the status; its message is statusText
\* when res.json() rejects (the body is not valid JSON, or the read fails or
\* is aborted) or yields null, the detail converted to a string when the
\* parsed body has a truthy detail, and JSON.stringify of the parsed body
\* when detail is absent or falsy.
C5_MessageIsDetailOrJsonOrStatusText ==
    \A c \in Calls :
        (Settled(c) /\ ~IsOk(apiCalls[c].res.status) /\ apiCalls[c].responded) =>
            LET call == apiCalls[c]
                p == JsonParse(call.res.body)
                d == BodyDetail(call.res.body)
                msg == call.promise.v.s
            IN  /\ call.promise.state = "rejected"
                /\ call.promise.v.type = "error"
                /\ call.promise.v.status = Some(call.res.status)
                /\ (call.read = "failed" \/ ~p.ok \/ p.v = JsonNull)
                      => msg = call.res.statusText
                /\ (call.read = "ok" /\ d # None /\ Truthy(d[1]))
                      => msg = JsToString(d[1])
                /\ (call.read = "ok" /\ p.ok /\ p.v # JsonNull
                        /\ (d = None \/ ~Truthy(d[1])))
                      => msg = JsonStringify(p.v).s
                /\ (call.read = "ok" /\ call.res.body = "{\"detail\":\"Not found\"}")
                      => msg = "Not found"
                /\ (call.read = "ok" /\ call.res.body = "{ \"error\": \"x\" }")
                      => msg = "{\"error\":\"x\"}"
                /\ (call.read = "ok" /\ call.res.body = "{\"detail\":\"\"}")
                      => msg = "{\"detail\":\"\"}"
                /\ (call.read = "ok" /\ call.res.body = "<html>")
                      => msg = call.res.statusText

C5_Witness ==
    \E c \in Calls :
        /\ Settled(c)
        /\ apiCalls[c].res.status = 422
        /\ apiCalls[c].read = "ok"
        /\ apiCalls[c].res.body = "{ \"error\": \"x\" }"
        /\ apiCalls[c].promise.v.s = "{\"error\":\"x\"}"
        /\ apiCalls[c].res.statusText = "Unprocessable Entity"

\* Content types that include the text application/json.
JsonContentTypes == {Some(CtJson), Some(CtJsonCharset)}

\* C6: a success response with status 204 resolves with undefined whatever
\* its content type; any other success response resolves with the parsed
\* JSON body when the content-type header includes application/json and with
\* the raw text otherwise, a missing header included.
C6_SuccessDecoding ==
    \A c \in Calls :
        LET call == apiCalls[c] IN
        /\ call.promise.state = "resolved" =>
              /\ call.responded /\ IsOk(call.res.status)
              /\ call.promise.v =
                    IF call.res.status = 204 THEN Undefined
                    ELSE IF call.res.ct \in JsonContentTypes
                    THEN JsonParse(call.res.body).v
                    ELSE Str(call.res.body)
        /\ (call.responded /\ call.res.status = 204) =>
              call.promise = Resolved(Undefined)
        /\ (call.read = "ok" /\ IsOk(call.res.status)) =>
              IF call.res.ct \in JsonContentTypes
              THEN JsonParse(call.res.body).ok => call.promise.state = "resolved"
              ELSE call.promise.state = "resolved"

C6_Witness ==
    \E c \in Calls :
        /\ apiCalls[c].promise = Resolved(Obj("[{\"id\":1}]"))
        /\ apiCalls[c].res.ct = Some(CtJsonCharset)
        /\ apiCalls[c].res.status = 200

\* C7: the headers of the issued request are the default Content-Type
\* overlaid with the caller's headers, for every options value.
C7_HeadersAreDefaultOverlaidWithCaller ==
    \A r \in 1..Len(requests) :
        LET o == apiCalls[requests[r].call].options
            caller == IF "headers" \in DOMAIN o THEN o["headers"] ELSE EmptyObject
        IN  /\ DOMAIN requests[r].init["headers"] = {"Content-Type"} \cup DOMAIN caller
            /\ \A h \in DOMAIN requests[r].init["headers"] :
                  requests[r].init["headers"][h] =
                      IF h \in DOMAIN caller THEN caller[h] ELSE "application/json"

\* C8: the request is bound to the call's own signal for every options
\* value, so when the timer has fired and no response had arrived the call
\* has been rejected with an error that carries no status.
C8_TimeoutRejectsWithoutStatus ==
    \A c \in Calls :
        (apiCalls[c].timerFired /\ ~apiCalls[c].responded) =>
            /\ Settled(c)
            /\ apiCalls[c].promise.state = "rejected"
            /\ apiCalls[c].promise.v.status = None

\* C9: a call issues exactly one HTTP request, and after a network failure,
\* an abort, a non-success status or a failed body decode it never resolves:
\* it rejects when it settles.
C9_FailuresAlwaysPropagate ==
    \A c \in Calls :
        LET call == apiCalls[c] IN
        /\ Cardinality(RequestsOf(c)) = 1
        /\ call.failure # "none" =>
              /\ call.promise.state # "resolved"
              /\ Settled(c) => call.promise.state = "rejected"
        /\ (call.responded /\ ~IsOk(call.res.status)) => call.failure = "http"
        /\ (call.read = "failed") => call.failure \in {"http", "decode"}
        /\ (call.read = "ok" /\ call.pc = "done" /\ IsOk(call.res.status)
              /\ call.res.ct \in JsonContentTypes /\ ~JsonParse(call.res.body).ok)
              => call.promise = Rejected(SyntaxError)
        /\ call.promise.state = "resolved" =>
              /\ call.failure = "none"
              /\ call.responded /\ IsOk(call.res.status)
              /\ call.read # "failed"

C9_Witness ==
    \E c \in Calls :
        /\ Settled(c)
        /\ apiCalls[c].res.status = 200
        /\ apiCalls[c].res.ct = Some(CtJson)
        /\ apiCalls[c].res.body = "<html>"
        /\ apiCalls[c].read = "ok"
        /\ apiCalls[c].promise.state = "rejected"

\* A URL scheme (RFC 3986): a letter, then letters, digits, "+", "-" or ".",
\* up to a colon.
Letters ==
    { "a", "b", "c", "d", "e", "f", "g", "h", "i", "j", "k", "l", "m",
      "n", "o", "p", "q", "r", "s", "t", "u", "v", "w", "x", "y", "z",
      "A", "B", "C", "D", "E", "F", "G", "H", "I", "J", "K", "L", "M",
      "N", "O", "P", "Q", "R", "S", "T", "U", "V", "W", "X", "Y", "Z" }
SchemeChars ==
    Letters \cup {"0", "1", "2", "3", "4", "5", "6", "7", "8", "9", "+", "-", "."}
HasScheme(path) ==
    \E i \in 2..Len(path) :
        /\ path[i] = ":"
        /\ path[1] \in Letters
        /\ \A j \in 2..(i - 1) : path[j] \in SchemeChars

\* C21: every request of a path that does not start with a URL scheme goes
\* to the API root followed by the path, and every request of an absolute
\* URL goes to that URL unchanged.
C21_BasePathConvention ==
    \A r \in 1..Len(requests) :
        LET path == apiCalls[requests[r].call].path IN
        requests[r].url = IF HasScheme(path) THEN path ELSE ApiRoot \o path

----------------------------------------------------------------------------
(* Properties of the write hooks, checked under Spec *)

\* The requests that carry a method: those of the mutation functions.
WriteRequests == {r \in 1..Len(requests) : "method" \in DOMAIN requests[r].init}

\* C10: an invocation of a write hook's mutation issues exactly one HTTP
\* request whatever its outcome, never through retry, and when that request
\* fails the mutation rejects with the error api produced.
C10_WritesIssueOneRequest ==
    mPc # "idle" =>
        /\ Cardinality(WriteRequests) = 1
        /\ \A r \in WriteRequests :
              /\ requests[r].call = mCall
              /\ requests[r].url = ApiRoot \o WritePath(mOp.hook, mOp.arg)
              /\ requests[r].init["method"] = WriteMethod(mOp.hook)
              /\ requests[r].init["body"] = WriteBody(mOp.hook, mOp.arg)
        /\ rCalls = 0 /\ rWaits = <<>>
        /\ mPc = "done" =>
              /\ apiCalls[mCall].pc = "done"
              /\ mPromise = apiCalls[mCall].promise
              /\ apiCalls[mCall].failure # "none" => mPromise.state = "rejected"

C10_Witness ==
    /\ mPc = "done"
    /\ mOp.hook = "useAdjustInventory"
    /\ mPromise = Rejected(Err("Not found", Some(404)))
    /\ Len(requests) = 1

----------------------------------------------------------------------------
(* Properties of cache invalidation, checked under SpecCache *)

AnyInvalidated == \E k \in DOMAIN cache : cache[k].invalidated
WriteObservedOk ==
    /\ mPc = "done"
    /\ mPromise.state = "resolved"
    /\ apiCalls[mCall].responded
    /\ IsOk(apiCalls[mCall].res.status)

\* C11: a key is passed to invalidateQueries, and a cached read marked
\* invalidated, only once the write's response has been observed successful:
\* none while the write is in flight, none when it failed, and the step in
\* which a write settles as failed leaves the cache and the reads unchanged.
C11_InvalidationNeverSpeculative ==
    /\ []((invalidated # <<>> \/ AnyInvalidated) => WriteObservedOk)
    /\ [][(mPc = "awaitApi" /\ mPc' = "done" /\ mPromise'.state = "rejected")
             => (cache' = cache /\ invalidated' = <<>> /\ UNCHANGED readVars)]_vars

C11_Witness ==
    /\ WriteObservedOk
    /\ invalidated = OnSuccessKeys(mOp.hook)
    /\ \E k \in DOMAIN cache : cache[k].invalidated /\ cache[k].data # None
    /\ qPc = "cancelled"

\* C12 as stated: once a write has succeeded, every cached read whose
\* endpoint reads the table the write changed has been invalidated.
C12_WriteInvalidatesEveryAffectedRead ==
    WriteObservedOk =>
        \A k \in DOMAIN cache :
            TableWritten(mOp.hook) \in TablesRead(HookOfKey(k)) =>
                \E i \in 1..Len(invalidated) : Matches(invalidated[i], k)

WriteSucceeds == mPc = "awaitApi" /\ mPc' = "done" /\ mPromise'.state = "resolved"

\* C13: the step in which a successful adjust-inventory settles marks
\* invalidated the inventory-drugs read, the inventory-summary read and the
\* inventory-transactions read of every limit; add patient marks the
\* patients read, add drug the drugs read, add delivery and update delivery
\* status the deliveries read.
C13_SuccessCallbackMarksKeys ==
    [][WriteSucceeds =>
        /\ mOp.hook = "useAdjustInventory" =>
              /\ cache'[KeyInventory].invalidated
              /\ cache'[KeyInventorySummary].invalidated
              /\ \A limit \in ReadArgs("useInventoryTransactions") :
                    cache'[QueryKey("useInventoryTransactions", limit)].invalidated
        /\ mOp.hook = "useAddPatient" => cache'[KeyPatients].invalidated
        /\ mOp.hook = "useAddDrug" => cache'[KeyDrugs].invalidated
        /\ mOp.hook \in {"useAddDelivery", "useUpdateDeliveryStatus"} =>
              cache'[KeyDeliveries].invalidated]_vars

C13_Witness ==
    /\ WriteObservedOk
    /\ mOp.hook = "useAdjustInventory"
    /\ \A limit \in ReadArgs("useInventoryTransactions") :
          LET k == QueryKey("useInventoryTransactions", limit) IN
          cache[k].invalidated /\ cache[k].data # None
    /\ cache[KeyInventory].invalidated
    /\ cache[KeyInventorySummary].invalidated

\* C14 as stated: once an adjust-inventory has been observed successful, a
\* value the cache holds as current for an inventory read is the payload of
\* the backend's tables after the adjustment.
C14_NoStaleReadAfterAdjustment ==
    (WriteObservedOk /\ mOp.hook = "useAdjustInventory") =>
        \A hook \in PanelHooks : \A arg \in ReadArgs(hook) :
            LET entry == cache[QueryKey(hook, arg)] IN
            (entry.data # None /\ ~entry.invalidated) =>
                entry.data[1] = Snapshot(hook, db)

----------------------------------------------------------------------------
(* Properties of concurrent calls, checked under SpecCache *)

\* C15: a call is aborted only by its own timer, the step in which the
\* timer of one call fires changes no other call, and a retry sequence one
\* of whose attempts timed out is not cancelled: it rejects only after its
\* last attempt and otherwise waits for, or is in, its next attempt.
C15_IndependentTimeouts ==
    /\ [](\A c \in Calls : apiCalls[c].failure = "abort" => apiCalls[c].timerFired)
    /\ [][\A c \in Calls :
             (~apiCalls[c].timerFired /\ apiCalls'[c].timerFired) =>
                 \A d \in Calls \ {c} : apiCalls'[d] = apiCalls[d]]_vars
    /\ [](\A k \in 1..Len(rHist) :
             (~rHist[k].ok /\ rHist[k].v = AbortError /\ k < rAttempts) =>
                 \/ rPc = "delay" /\ Len(rHist) = k /\ rPromise = Pending
                 \/ rCalls > k)

C15_Witness ==
    /\ mCall = 1
    /\ apiCalls[1].pc = "fetch"
    /\ Len(apiCalls) = 3
    /\ apiCalls[2].failure = "abort"
    /\ apiCalls[2].timerFired
    /\ qPc = "retry"
    /\ rCalls = 2
    /\ qCall = 3

----------------------------------------------------------------------------
(* Properties of the read hooks, checked under Spec *)

PatientDeliveriesUrl(id) ==
    <<"/", "a", "p", "i", "/", "d", "e", "l", "i", "v", "e", "r", "i", "e", "s",
      "/", "p", "a", "t", "i", "e", "n", "t", "/">> \o NumberChars(id)

RetryingHooks == {"usePatients", "useDrugs", "useDeliveries", "useInventoryDrugs"}
DirectHooks ==
    {"useStats", "useInventorySummary", "useInventoryTransactions", "usePatientDeliveries"}

\* C17: when one run of a query function has rejected, every request it
\* issued failed, and it issued exactly 3 requests for patients, drugs,
\* deliveries and inventory-drugs, and exactly 1 for stats, inventory
\* summary, inventory transactions and patient-scoped deliveries, whose
\* error is the rejection; and a run all of whose requests failed rejects.
C17_RetryAsymmetry ==
    /\ (qPc = "done" /\ qPromise.state = "rejected") =>
          /\ \A c \in Calls : apiCalls[c].promise.state = "rejected"
          /\ qOp.hook \in RetryingHooks =>
                /\ Len(requests) = 3
                /\ qPromise = apiCalls[3].promise
          /\ qOp.hook \in DirectHooks =>
                /\ Len(requests) = 1
                /\ qPromise = apiCalls[1].promise
    /\ (qPc = "done" /\ qOp.hook \in RetryingHooks /\ Len(requests) = 3
            /\ apiCalls[3].promise.state = "rejected") =>
          qPromise.state = "rejected"
    /\ (qOp.hook \in DirectHooks \cup RetryingHooks) =>
          Len(requests) <= IF qOp.hook \in RetryingHooks THEN 3 ELSE 1

C17_Witness ==
    /\ qOp.hook = "useInventoryDrugs"
    /\ qPc = "done"
    /\ qPromise.state = "rejected"
    /\ Len(requests) = 3
    /\ \A c \in Calls : apiCalls[c].promise.state = "rejected"

\* C23: while a read runs through retry(() => api(...)), every invocation
\* of fn is one call of api with one timer, at most one timer is pending at
\* any time, the timer of an attempt is cleared when retry has observed the
\* attempt's outcome, and no timer is pending while retry waits in its
\* backoff or after retry has settled.
C23_OneTimerPerAttempt ==
    (qOp # NoOp /\ ViaRetry(qOp.hook)) =>
        /\ Len(apiCalls) = rCalls
        /\ Cardinality({c \in Calls : apiCalls[c].timerPending}) <= 1
        /\ \A c \in 1..Len(rHist) :
              ~apiCalls[c].timerPending /\ apiCalls[c].timerCleared
        /\ rPc \in {"delay", "done"} =>
              \A c \in Calls : ~apiCalls[c].timerPending /\ apiCalls[c].timerCleared

C23_Witness ==
    /\ qOp # NoOp
    /\ ViaRetry(qOp.hook)
    /\ Len(apiCalls) = 3
    /\ apiCalls[1].timerFired
    /\ apiCalls[2].failure = "network"
    /\ apiCalls[3].timerPending
    /\ rPc = "awaitFn"

----------------------------------------------------------------------------
(* Properties of the merge, checked under SpecMerge *)

SummaryOf(id) ==
    {j \in 1..Len(mergeArgs[1].summary[1]) : heap[mergeArgs[1].summary[1][j]].id = id}

\* C18: mergeInventory returns, for each drug in order, a record with the
\* drug's fields overlaid with those of a summary record of the same id
\* (the summary's value where both have the field); a drug that has no
\* summary of its id, or any drug when summary is undefined, comes out with
\* exactly its own fields; undefined drugs give the empty list.
C18_MergeOverlaysSummary ==
    (mergeOut # None /\ mergeOut[1].by = "mergeInventory") =>
        LET drugs == mergeArgs[1].drugs
            summary == mergeArgs[1].summary
            list == mergeOut[1].list
        IN  IF drugs = None THEN list = <<>>
            ELSE /\ Len(list) = Len(drugs[1])
                 /\ \A i \in 1..Len(list) :
                       LET d == heap[drugs[1][i]]
                           r == heap[list[i]]
                       IN  IF summary = None \/ SummaryOf(d.id) = {}
                           THEN /\ DOMAIN r = DOMAIN d
                                /\ \A f \in DOMAIN d : r[f] = d[f]
                           ELSE \E j \in SummaryOf(d.id) :
                                  LET sm == heap[summary[1][j]] IN
                                  /\ DOMAIN r = DOMAIN d \cup DOMAIN sm
                                  /\ \A f \in DOMAIN sm : r[f] = sm[f]
                                  /\ \A f \in DOMAIN d \ DOMAIN sm : r[f] = d[f]

C18_Witness ==
    /\ mergeOut # None
    /\ mergeOut[1].by = "mergeInventory"
    /\ mergeArgs[1].drugs = Some(<<1, 2>>)
    /\ mergeArgs[1].summary = Some(<<5, 3>>)
    /\ heap[mergeOut[1].list[1]] =
          [id |-> 1, name |-> "A", stock |-> 7, pending_quantity |-> 5]
    /\ heap[mergeOut[1].list[2]] = [id |-> 2, name |-> "B", stock |-> 0]

\* C19: a step of mergeInventory or of the panel's merge changes neither
\* the lists passed to it nor any record that existed before it, and every
\* element of the result is a record created by the call, one per element.
C19_MergeDoesNotMutate ==
    /\ [][mergeArgs # None =>
             /\ mergeArgs' = mergeArgs
             /\ \A r \in 1..Len(heap) : heap'[r] = heap[r]]_vars
    /\ [](mergeOut # None =>
             /\ \A r \in 1..Len(InitialHeap) : heap[r] = InitialHeap[r]
             /\ \A i \in 1..Len(mergeOut[1].list) :
                   /\ mergeOut[1].list[i] > Len(InitialHeap)
                   /\ \A j \in 1..Len(mergeOut[1].list) :
                         i # j => mergeOut[1].list[i] # mergeOut[1].list[j])

C19_Witness ==
    /\ mergeOut # None
    /\ mergeOut[1].by = "InventoryPanel"
    /\ mergeArgs[1].drugs = Some(<<1, 1>>)
    /\ mergeArgs[1].summary = Some(<<3>>)
    /\ mergeOut[1].list = <<6, 7>>
    /\ heap[6] = heap[7]
    /\ heap[6] # heap[1]

\* C29: for lists drugs and summary, the merge (mergeInventory and the
\* panel's) returns one row per drug, in order and with the drug's id; every
\* field of a row comes from its drug or from a summary of the drug's id, so
\* a summary of another id adds nothing; and of several summaries of the
\* drug's id the last in the list is overlaid: the row has all its fields.
C29_MergeKeepsShape ==
    (mergeOut # None /\ mergeArgs[1].drugs # None /\ mergeArgs[1].summary # None) =>
        LET drugs == mergeArgs[1].drugs[1]
            summary == mergeArgs[1].summary[1]
            list == mergeOut[1].list
        IN  /\ Len(list) = Len(drugs)
            /\ \A i \in 1..Len(list) :
                  LET d == heap[drugs[i]]
                      r == heap[list[i]]
                      same == SummaryOf(d.id)
                  IN  /\ r.id = d.id
                      /\ \A f \in DOMAIN r :
                            \/ f \in DOMAIN d /\ r[f] = d[f]
                            \/ \E j \in same :
                                  /\ f \in DOMAIN heap[summary[j]]
                                  /\ r[f] = heap[summary[j]][f]
                      /\ same = {} => r = d
                      /\ \A j \in same :
                            (\A k \in same : k <= j) =>
                                \A f \in DOMAIN heap[summary[j]] :
                                    /\ f \in DOMAIN r
                                    /\ r[f] = heap[summary[j]][f]

C29_Witness ==
    /\ mergeOut # None
    /\ mergeArgs[1].drugs = Some(<<2, 1>>)
    /\ mergeArgs[1].summary = Some(<<3, 4>>)
    /\ Len(mergeOut[1].list) = 2
    /\ heap[mergeOut[1].list[1]] = [id |-> 2, name |-> "B", stock |-> 0]
    /\ heap[mergeOut[1].list[2]] =
          [id |-> 1, name |-> "A", stock |-> 10, pending_quantity |-> 9]

----------------------------------------------------------------------------
(* Properties of the delivery form and status selector, checked under      *)
(* SpecForm                                                                *)

DeliveryStatuses == {"pending", "delivered", "missed", "cancelled"}
DeliveryBodies ==
    {WriteBody("useAddDelivery",
               [patient_id |-> 1, drug_id |-> 7, scheduled_for |-> "2025-01-01",
                status |-> st]) : st \in DeliveryStatuses}
    \cup {WriteBody("useUpdateDeliveryStatus", [id |-> 7, status |-> st]) :
             st \in DeliveryStatuses}

\* C20: a newly opened form has status pending; the form's status, and the
\* status in the body of every request sent by add delivery or update
\* delivery status, is one of pending, delivered, missed, cancelled; and
\* the form has status pending again after the reset that follows a
\* successful submission.
C20_StatusWithinEnumeration ==
    /\ formData.status = "pending"
    /\ [](/\ formData.status \in DeliveryStatuses
          /\ \A r \in 1..Len(requests) :
                /\ requests[r].init["method"] \in {"POST", "PATCH"}
                /\ requests[r].init["body"] \in DeliveryBodies
          /\ mOp.hook \in {"useAddDelivery", "useUpdateDeliveryStatus"} =>
                mOp.arg.status \in DeliveryStatuses)
    /\ [][(mPc = "done" /\ mPc' = "idle" /\ mOp.hook = "useAddDelivery"
              /\ mPromise.state = "resolved")
             => formData'.status = "pending"]_vars

C20_Witness ==
    /\ Len(requests) = 1
    /\ requests[1].init["body"] =
          "{\"patient_id\":1,\"drug_id\":7,\"scheduled_for\":\"2025-01-01\",\"status\":\"missed\"}"
    /\ apiCalls[1].promise.state = "resolved"
    /\ mPc = "idle"
    /\ formData = InitialFormData

----------------------------------------------------------------------------
(* Properties of the refresh button, checked under SpecRefresh and          *)
(* SpecSpinner                                                              *)

\* A step in which doRefresh is called.
RefreshCalled == refreshButton'.calls = refreshButton.calls + 1

\* The effect of a doRefresh call that hands `keys` to invalidateQueries: the
\* keys are handed over in order, exactly the cached queries whose key
\* starts with one of them become invalidated, no cached data changes and
\* the call itself issues no request.
RefreshInvalidates(keys) ==
    /\ invalidated' = invalidated \o keys
    /\ \A k \in DOMAIN cache :
          /\ cache'[k].data = cache[k].data
          /\ cache'[k].invalidated =
                (cache[k].invalidated \/ \E i \in 1..Len(keys) : Matches(keys[i], k))
    /\ requests' = requests

\* The cached queries a refresh without keys covers, and those it spares.
FallbackCovered ==
    {QueryKey(h, a) : h \in {"usePatients", "useDrugs", "useDeliveries",
                             "useInventoryDrugs", "useInventorySummary"},
                      a \in {None}}
    \cup {QueryKey("useInventoryTransactions", a) :
             a \in ReadArgs("useInventoryTransactions")}
FallbackSpared ==
    {KeyStats} \cup {QueryKey("usePatientDeliveries", a) :
                        a \in ReadArgs("usePatientDeliveries")}

\* No request carries a method: every request is a GET.
OnlyReadRequests ==
    \A r \in 1..Len(requests) : "method" \notin DOMAIN requests[r].init

\* C25 as stated: called with a queryKeys list doRefresh invalidates exactly
\* the keys of the list, called without one it invalidates patients, drugs,
\* deliveries and inventory, which covers the inventory summary and
\* transactions and spares stats and the patient-scoped deliveries; no
\* write request is issued.
C25_RefreshInvalidatesGivenKeys ==
    /\ []OnlyReadRequests
    /\ [][RefreshCalled =>
            IF refreshButton'.queryKeys # None
            THEN RefreshInvalidates(refreshButton'.queryKeys[1])
            ELSE /\ RefreshInvalidates(<<KeyPatients, KeyDrugs, KeyDeliveries, KeyInventory>>)
                 /\ \A k \in FallbackCovered : cache'[k].invalidated
                 /\ \A k \in FallbackSpared :
                       cache'[k].invalidated = cache[k].invalidated]_vars

\* C25, amended: a non-empty queryKeys list is invalidated as given; without
\* a list, or with an empty one, the four fallback keys are.
C25_RefreshInvalidatesGivenOrFallback ==
    /\ []OnlyReadRequests
    /\ [][RefreshCalled =>
            IF refreshButton'.queryKeys # None /\ refreshButton'.queryKeys[1] # <<>>
            THEN RefreshInvalidates(refreshButton'.queryKeys[1])
            ELSE /\ RefreshInvalidates(<<KeyPatients, KeyDrugs, KeyDeliveries, KeyInventory>>)
                 /\ \A k \in FallbackCovered : cache'[k].invalidated
                 /\ \A k \in FallbackSpared :
                       cache'[k].invalidated = cache[k].invalidated]_vars

C25_Witness ==
    /\ refreshButton.calls = 1
    /\ refreshButton.queryKeys = Some(<<>>)
    /\ cache[QueryKey("useInventoryTransactions", Some(DefaultLimit))].invalidated
    /\ cache[KeyInventorySummary].invalidated
    /\ ~cache[KeyStats].invalidated
    /\ qPc = "cancelled"
    /\ Len(requests) = 1

\* C26: a spinning button eventually stops spinning, whether the
\* invalidations resolved or one rejected: the reset timer is armed for 400 ms
\* when they settle and only its firing clears the flag; doRefresh starts
\* only while the flag is false, so at most one call is awaiting or has its
\* timer pending, and the flag is true for as long as one is.
C26_SpinnerResets ==
    /\ [](/\ refreshButton.awaiting + Len(refreshButton.timers) <= 1
          /\ refreshButton.spinning =
                (refreshButton.awaiting + Len(refreshButton.timers) = 1)
          /\ \A t \in 1..Len(refreshButton.timers) : refreshButton.timers[t] = 400)
    /\ [][/\ RefreshCalled => ~refreshButton.spinning /\ refreshButton'.spinning
          /\ refreshButton'.awaiting < refreshButton.awaiting =>
                refreshButton'.timers = <<400>>
          /\ (refreshButton.spinning /\ ~refreshButton'.spinning) =>
                (refreshButton.timers = <<400>> /\ refreshButton'.timers = <<>>)]_vars
    /\ refreshButton.spinning ~> ~refreshButton.spinning

C26_Witness ==
    /\ refreshButton.calls = 2
    /\ refreshButton.settled = "rejected"
    /\ ~refreshButton.spinning
    /\ refreshButton.awaiting = 0
    /\ refreshButton.timers = <<>>

----------------------------------------------------------------------------
(* Properties of the AI assistant panel, checked under SpecImages and       *)
(* SpecAi                                                                   *)

\* The calls of api made by the handler `path` belongs to, oldest first, and
\* those of them whose handler has run to its end.
CallsTo(path) == {c \in Calls : apiCalls[c].path = path}
Handled(fn, path) ==
    {c \in CallsTo(path) : Settled(c) /\ \A w \in AwaitingOf(fn) : w.call # c}

\* C27: whatever generateImage calls have succeeded or failed, the images
\* list holds at most 12 entries, and the result of the generation handled
\* last, the image or the error entry, is its first entry.
C27_ImagesBounded ==
    /\ Len(aiPanel.images) <= 12
    /\ \A c \in Handled("generateImage", PathImage) :
          (\A d \in Handled("generateImage", PathImage) : d <= c) =>
              /\ aiPanel.images # <<>>
              /\ aiPanel.images[1] =
                    IF apiCalls[c].promise.state = "resolved"
                    THEN apiCalls[c].promise.v
                    ELSE ErrorImage(apiCalls[c].promise.v)

\* The handlers of the panel with the flag, the input and the endpoint of
\* each.
AiHandlers ==
    { [fn |-> "sendChat", flag |-> "chatLoading", input |-> "chatInput", path |-> PathChat],
      [fn |-> "generateImage", flag |-> "imgLoading", input |-> "imgPrompt", path |-> PathImage],
      [fn |-> "doRewrite", flag |-> "rewriteLoading", input |-> "rewriteInput",
       path |-> PathRewrite] }

\* What a handler call that returns early must leave alone.
AiResults ==
    <<aiPanel.history, aiPanel.images, aiPanel.rewriteOutput, aiPanel.chatLoading,
      aiPanel.imgLoading, aiPanel.rewriteLoading, aiPanel.awaiting>>

\* C28: each loading flag is true exactly while a call of its handler waits
\* for its request, of which there is at most one, and is false once every
\* request of the handler has settled and been handled, however it settled;
\* a handler called with blank input sends nothing and changes neither
\* history, images, output nor a flag, and only a non-blank input is sent;
\* a chat whose request fails keeps the user's message as sent and gets
\* exactly one assistant entry appended.
C28_LoadingFlags ==
    /\ [](\A h \in AiHandlers :
            /\ aiPanel[h.flag] = (AwaitingOf(h.fn) # {})
            /\ Cardinality(AwaitingOf(h.fn)) <= 1
            /\ \A w \in AwaitingOf(h.fn) : w.call \in CallsTo(h.path)
            /\ CallsTo(h.path) = Handled(h.fn, h.path) \cup {w.call : w \in AwaitingOf(h.fn)}
            /\ (\A c \in CallsTo(h.path) : c \in Handled(h.fn, h.path)) => ~aiPanel[h.flag])
    /\ [][\A h \in AiHandlers :
            /\ (aiPanel'.early # aiPanel.early /\ aiPanel'.early = h.fn) =>
                  /\ Trim(aiPanel[h.input]) = ""
                  /\ requests' = requests
                  /\ AiResults' = AiResults
            /\ CallsTo(h.path)' # CallsTo(h.path) =>
                  /\ Trim(aiPanel[h.input]) # ""
                  /\ ~aiPanel[h.flag] /\ aiPanel'[h.flag]]_vars
    /\ [][\A w \in AwaitingOf("sendChat") :
            (w \notin AwaitingOf("sendChat")' /\ apiCalls[w.call].promise.state = "rejected") =>
                /\ aiPanel.history[Len(aiPanel.history)].role = "user"
                /\ Len(aiPanel'.history) = Len(aiPanel.history) + 1
                /\ SubSeq(aiPanel'.history, 1, Len(aiPanel.history)) = aiPanel.history
                /\ aiPanel'.history[Len(aiPanel'.history)].role = "assistant"]_vars

C28_Witness ==
    /\ Len(apiCalls) = 1
    /\ apiCalls[1].path = PathChat
    /\ apiCalls[1].timerFired
    /\ apiCalls[1].promise.state = "rejected"
    /\ aiPanel.awaiting = {}
    /\ ~aiPanel.chatLoading
    /\ Len(aiPanel.history) = 3
    /\ aiPanel.history[2] = [role |-> "user", content |-> "hi"]
    /\ aiPanel.history[3].role = "assistant"
    /\ aiPanel.early = "doRewrite"

====
